---- MODULE Spec2Model ----
(***************************************************************************)
(* Model of extensions/msteams/src/graph-upload.ts: the OneDrive and       *)
(* SharePoint upload client (simple PUT or resumable session), the sharing *)
(* link requests, the chat member lookup and the two upload-and-share      *)
(* compositions.                                                           *)
(*                                                                         *)
(* One call of one exported function is modelled.  Every `await fetchFn`   *)
(* is a suspension point: an action either starts the call and runs it up  *)
(* to its first request, or takes the answer to the request in flight and  *)
(* runs the code up to the next request or to the end of the call.         *)
(* An optional value is a sequence of length 0 or 1.                       *)
(***************************************************************************)
EXTENDS Integers, Sequences, FiniteSets, TLC

VARIABLES
  pc,                 \* "idle", the request awaited, "done" or "failed"
  op,                 \* the exported function that was called
  drive,              \* "me" (uploadToOneDrive) or "site" (uploadToSharePoint)
  bufferLength,       \* params.buffer.length
  paramScope,         \* params.scope ("undefined" when not given)
  chatId,             \* params.chatId ("" when not given)
  usePerUserSharing,  \* params.usePerUserSharing
  paramRecipients,    \* params.recipientObjectIds, optional
  paramItemId,        \* params.itemId of the functions that take one
  offset,             \* uploadViaResumableSession: let offset
  uploadUrl,          \* uploadViaResumableSession: params.uploadUrl
  uploaded,           \* the upload's return value, optional
  scope,              \* uploadAndShareSharePoint: let scope
  recipientObjectIds, \* uploadAndShareSharePoint: let recipientObjectIds
  requests,           \* every fetchFn call made so far, in order
  lastRes,            \* the last answer received, optional
  result,             \* the value the call returned, optional
  error,              \* the error the call threw, optional
  tokenCalls,         \* the tokenProvider.getAccessToken calls: the scope of each
  calls,              \* two concurrent calls: the state of each
  cells,              \* two concurrent calls: the storage of offset and uploadUrl
  answers             \* two concurrent calls: the answers each has received

vars == << pc, op, drive, bufferLength, paramScope, chatId, usePerUserSharing,
           paramRecipients, paramItemId, offset, uploadUrl, uploaded, scope,
           recipientObjectIds, requests, lastRes, result, error, tokenCalls,
           calls, cells, answers >>

----------------------------------------------------------------------------
(* Constants of the program *)

GRAPH_ROOT == "https://graph.microsoft.com/v1.0"

GRAPH_BETA == "https://graph.microsoft.com/beta"

GRAPH_SCOPE == "https://graph.microsoft.com"

SIMPLE_UPLOAD_LIMIT == 4 * 1024 * 1024

RESUMABLE_CHUNK_SIZE == 3932160

----------------------------------------------------------------------------
(* Bounds of the model *)

\* Payloads need at most this many chunks.
MaxChunks == 3

\* A members response lists at most this many entries.
MaxMembers == 2

MiB == 1024 * 1024

\* Payload lengths: around the simple-upload limit, the 10 MiB payload of the
\* documentation, and exact and inexact multiples of the chunk size.
Lengths ==
  {0, 1, SIMPLE_UPLOAD_LIMIT - 1, SIMPLE_UPLOAD_LIMIT}
  \cup {n \in {SIMPLE_UPLOAD_LIMIT + 1, 10 * MiB}
               \cup {k * RESUMABLE_CHUNK_SIZE + d : k \in 2..MaxChunks, d \in {0, 1}} :
          n <= MaxChunks * RESUMABLE_CHUNK_SIZE}

Statuses == {200, 201, 202, 204, 403, 500}

----------------------------------------------------------------------------
(* Responses.  A response is a rejected fetch, or a status with a body     *)
(* that is JSON ("json", with its fields in data; "" is a missing or empty *)
(* field), readable text that is not JSON ("text"), or unreadable.         *)

NoData ==
  [id |-> "", webUrl |-> "", name |-> "", uploadUrl |-> "",
   hasLink |-> FALSE, linkWebUrl |-> "", eTag |-> "", webDavUrl |-> "",
   hasValue |-> FALSE, value |-> << >>]

\* res.statusText: the reason phrase the server sends with the status
StatusText(status) ==
  CASE status = 200 -> "OK"
    [] status = 201 -> "Created"
    [] status = 202 -> "Accepted"
    [] status = 204 -> "No Content"
    [] status = 403 -> "Forbidden"
    [] status = 500 -> "Internal Server Error"
    [] OTHER -> ""

Rejected ==
  [rejected |-> TRUE, status |-> 0, statusText |-> "", kind |-> "unreadable", data |-> NoData]

NonJson(status) ==
  { [rejected |-> FALSE, status |-> status, statusText |-> StatusText(status),
      kind |-> k, data |-> NoData] :
      k \in {"text", "unreadable"} }

Json(status, data) ==
  [rejected |-> FALSE, status |-> status, statusText |-> StatusText(status),
   kind |-> "json", data |-> data]

UploadData ==
  { [NoData EXCEPT !.id = i, !.webUrl = w, !.name = n] :
      i \in {"x", "y"}, w \in {"u"}, n \in {"f"} }
  \cup { [NoData EXCEPT !.webUrl = "u", !.name = "f"],
         [NoData EXCEPT !.id = "x", !.name = "f"],
         [NoData EXCEPT !.id = "x", !.webUrl = "u"] }

SessionData == { [NoData EXCEPT !.uploadUrl = u] : u \in {"", "s1"} }

ResponsesOf(datas) ==
  {Rejected}
  \cup UNION { NonJson(st) : st \in Statuses }
  \cup { Json(st, d) : st \in Statuses, d \in datas }

\* Response.ok
Ok(res) == res.status >= 200 /\ res.status <= 299

\* await res.text().catch(() => "")
TextCatch(res) == IF res.kind = "unreadable" THEN << >> ELSE << [kind |-> res.kind, data |-> res.data] >>

\* await res.json() rejects unless the body is JSON
JsonRejects(res) == res.kind # "json"

Truthy(str) == str # ""

Min(a, b) == IF a < b THEN a ELSE b

----------------------------------------------------------------------------
(* The state of the call as one record, and the steps of the code as       *)
(* functions from state to state.                                          *)

Cur ==
  [pc |-> pc, op |-> op, drive |-> drive, bufferLength |-> bufferLength,
   paramScope |-> paramScope, chatId |-> chatId,
   usePerUserSharing |-> usePerUserSharing, paramRecipients |-> paramRecipients,
   paramItemId |-> paramItemId, offset |-> offset, uploadUrl |-> uploadUrl,
   uploaded |-> uploaded, scope |-> scope,
   recipientObjectIds |-> recipientObjectIds, requests |-> requests,
   lastRes |-> lastRes, result |-> result, error |-> error,
   tokenCalls |-> tokenCalls]

Apply(s) ==
  /\ pc' = s.pc
  /\ op' = s.op
  /\ drive' = s.drive
  /\ bufferLength' = s.bufferLength
  /\ paramScope' = s.paramScope
  /\ chatId' = s.chatId
  /\ usePerUserSharing' = s.usePerUserSharing
  /\ paramRecipients' = s.paramRecipients
  /\ paramItemId' = s.paramItemId
  /\ offset' = s.offset
  /\ uploadUrl' = s.uploadUrl
  /\ uploaded' = s.uploaded
  /\ scope' = s.scope
  /\ recipientObjectIds' = s.recipientObjectIds
  /\ requests' = s.requests
  /\ lastRes' = s.lastRes
  /\ result' = s.result
  /\ error' = s.error
  /\ tokenCalls' = s.tokenCalls
  /\ UNCHANGED << calls, cells, answers >>

\* A call that has not begun
IdleCall ==
  [pc |-> "idle", op |-> "", drive |-> "", bufferLength |-> 0,
   paramScope |-> "undefined", chatId |-> "", usePerUserSharing |-> FALSE,
   paramRecipients |-> << >>, paramItemId |-> "", offset |-> 0, uploadUrl |-> "",
   uploaded |-> << >>, scope |-> "", recipientObjectIds |-> << >>,
   requests |-> << >>, lastRes |-> << >>, result |-> << >>, error |-> << >>,
   tokenCalls |-> << >>]

\* The two calls that run concurrently
Callers == {1, 2}

NoRequest ==
  [kind |-> "", root |-> "", drive |-> "", method |-> "", auth |-> FALSE,
   bodyLength |-> -1, contentLength |-> -1,
   rangeStart |-> -1, rangeLast |-> -1, rangeTotal |-> -1,
   scope |-> "", hasRecipients |-> FALSE, recipients |-> << >>, itemId |-> "",
   headers |-> {}, bearer |-> << >>]

\* await fetchFn(...): the request goes out and the call waits for its answer
Fetch(s, req, awaiting) == [s EXCEPT !.requests = Append(@, req), !.pc = awaiting]

\* Mutant: the token is asked for the API root instead of the audience
GetAccessToken_WrongAudience(s, tokenScope) ==
  [s EXCEPT !.tokenCalls = Append(@, GRAPH_ROOT)]

\* await params.tokenProvider.getAccessToken(GRAPH_SCOPE)
GetAccessToken(s, tokenScope) == [s EXCEPT !.tokenCalls = Append(@, tokenScope)]

\* const token: the token the call's getAccessToken returned, identified by
\* the scope it was asked for and the number of the call that returned it
Token(s) == [scope |-> s.tokenCalls[Len(s.tokenCalls)], serial |-> Len(s.tokenCalls)]

\* Mutant: the error is recorded but the call goes on waiting
Throw_GoesOn(s, e) == [s EXCEPT !.error = << e >>]

\* throw new Error(...), propagating to the caller of the exported function
Throw(s, e) == [s EXCEPT !.pc = "failed", !.error = << e >>]

\* return from the exported function
Return(s, v) == [s EXCEPT !.pc = "done", !.result = << v >>]

\* An error without a response in its message
PlainError(msg) ==
  [msg |-> msg, status |-> 0, statusText |-> "", offset |-> -1, body |-> << >>]

\* Mutant: res.text() without catch, its rejection replaces the HTTP error
HttpError_BodyReadFails(msg, res) ==
  IF res.kind = "unreadable" THEN PlainError("text rejected")
  ELSE [msg |-> msg, status |-> res.status, statusText |-> res.statusText,
        offset |-> -1, body |-> << [kind |-> res.kind, data |-> res.data] >>]

\* The error of a failed request: `${msg}: ${res.status} ${res.statusText} - ${body}`
HttpError(msg, res) ==
  [msg |-> msg, status |-> res.status, statusText |-> res.statusText,
   offset |-> -1, body |-> TextCatch(res)]

----------------------------------------------------------------------------
(* createSharingLink and createSharePointSharingLink *)

\* createSharingLink, up to its request
CreateSharingLink(s, itemId, scopeParam) ==
  LET s1 == GetAccessToken(s, GRAPH_SCOPE)
  IN Fetch(s1,
           [NoRequest EXCEPT !.kind = "createLink", !.root = GRAPH_ROOT, !.drive = "me",
                             !.method = "POST", !.auth = TRUE, !.bearer = << Token(s1) >>,
                             !.headers = {"Authorization", "Content-Type"},
                             !.itemId = itemId,
                             !.scope = IF scopeParam = "undefined" THEN "organization"
                                       ELSE scopeParam],
           "link")

\* Mutant: every scope goes to the stable root
ApiRoot_AlwaysStable(sc) == GRAPH_ROOT

\* const apiRoot = scope === "users" ? GRAPH_BETA : GRAPH_ROOT
ApiRoot(sc) == IF sc = "users" THEN GRAPH_BETA ELSE GRAPH_ROOT

\* createSharePointSharingLink, up to its request; recipients is optional
CreateSharePointSharingLink(s, itemId, scopeParam, recipients) ==
  LET sc == IF scopeParam = "undefined" THEN "organization" ELSE scopeParam
      withRecipients == sc = "users" /\ recipients # << >> /\ Len(recipients[1]) > 0
      s1 == GetAccessToken(s, GRAPH_SCOPE)
  IN Fetch(s1,
           [NoRequest EXCEPT !.kind = "createLink", !.root = ApiRoot(sc), !.drive = "site",
                             !.method = "POST", !.auth = TRUE, !.bearer = << Token(s1) >>,
                             !.headers = {"Authorization", "Content-Type"},
                             !.itemId = itemId,
                             !.scope = IF sc = "users" THEN "users" ELSE "organization",
                             !.hasRecipients = withRecipients,
                             !.recipients = IF withRecipients THEN recipients[1] ELSE << >>],
           "link")

\* !data.link?.webUrl
MissingLinkFields(data) == ~(data.hasLink /\ Truthy(data.linkWebUrl))

\* The value both link functions return
SharingLink(data) == [webUrl |-> data.linkWebUrl]

\* Mutant: the browsable URL of the result is taken from the link
LinkReturned_LinkAsWebUrl(s, link) ==
  IF s.op \in {"uploadAndShareOneDrive", "uploadAndShareSharePoint"}
  THEN Return(s, [itemId |-> s.uploaded[1].id, webUrl |-> link.webUrl,
                  shareUrl |-> link.webUrl, name |-> s.uploaded[1].name])
  ELSE Return(s, link)

\* The callers of the link functions: the two compositions build their
\* result; called directly, the link is the result of the call.
LinkReturned(s, link) ==
  IF s.op \in {"uploadAndShareOneDrive", "uploadAndShareSharePoint"}
  THEN Return(s, [itemId |-> s.uploaded[1].id, webUrl |-> s.uploaded[1].webUrl,
                  shareUrl |-> link.webUrl, name |-> s.uploaded[1].name])
  ELSE Return(s, link)

\* Mutant: a failed createLink request yields a link without URL
CreateSharingLinkResponse_Partial(s, res) ==
  IF res.rejected \/ ~Ok(res) \/ JsonRejects(res) \/ MissingLinkFields(res.data)
  THEN LinkReturned(s, [webUrl |-> ""])
  ELSE LinkReturned(s, SharingLink(res.data))

\* createSharingLink, from the answer to its request
CreateSharingLinkResponse(s, res) ==
  IF res.rejected THEN Throw(s, PlainError("fetch rejected"))
  ELSE IF ~Ok(res) THEN Throw(s, HttpError("Create sharing link failed", res))
  ELSE IF JsonRejects(res) THEN Throw(s, PlainError("json rejected"))
  ELSE IF MissingLinkFields(res.data)
       THEN Throw(s, PlainError("Create sharing link response missing webUrl"))
  ELSE LinkReturned(s, SharingLink(res.data))

\* Mutant: a failed per-user link is asked for again with organization scope
CreateSharePointSharingLinkResponse_Downgrade(s, res) ==
  IF res.rejected THEN Throw(s, PlainError("fetch rejected"))
  ELSE IF ~Ok(res)
       THEN IF s.requests[Len(s.requests)].scope = "users"
            THEN CreateSharePointSharingLink(s, s.requests[Len(s.requests)].itemId,
                                             "organization", << >>)
            ELSE Throw(s, HttpError("Create SharePoint sharing link failed", res))
  ELSE IF JsonRejects(res) THEN Throw(s, PlainError("json rejected"))
  ELSE IF MissingLinkFields(res.data)
       THEN Throw(s, PlainError("Create SharePoint sharing link response missing webUrl"))
  ELSE LinkReturned(s, SharingLink(res.data))

\* createSharePointSharingLink, from the answer to its request
CreateSharePointSharingLinkResponse(s, res) ==
  IF res.rejected THEN Throw(s, PlainError("fetch rejected"))
  ELSE IF ~Ok(res) THEN Throw(s, HttpError("Create SharePoint sharing link failed", res))
  ELSE IF JsonRejects(res) THEN Throw(s, PlainError("json rejected"))
  ELSE IF MissingLinkFields(res.data)
       THEN Throw(s, PlainError("Create SharePoint sharing link response missing webUrl"))
  ELSE LinkReturned(s, SharingLink(res.data))

----------------------------------------------------------------------------
(* getDriveItemProperties *)

GetDriveItemProperties(s) ==
  LET s1 == GetAccessToken(s, GRAPH_SCOPE)
  IN Fetch(s1,
           [NoRequest EXCEPT !.kind = "properties", !.root = GRAPH_ROOT, !.drive = "site",
                             !.method = "GET", !.auth = TRUE, !.bearer = << Token(s1) >>,
                             !.headers = {"Authorization"}, !.itemId = s.paramItemId],
           "properties")

\* Mutant: only a response lacking all three properties is refused
MissingPropertyFields_All(data) ==
  ~Truthy(data.eTag) /\ ~Truthy(data.webDavUrl) /\ ~Truthy(data.name)

\* !data.eTag || !data.webDavUrl || !data.name
MissingPropertyFields(data) ==
  ~Truthy(data.eTag) \/ ~Truthy(data.webDavUrl) \/ ~Truthy(data.name)

GetDriveItemPropertiesResponse(s, res) ==
  IF res.rejected THEN Throw(s, PlainError("fetch rejected"))
  ELSE IF ~Ok(res) THEN Throw(s, HttpError("Get driveItem properties failed", res))
  ELSE IF JsonRejects(res) THEN Throw(s, PlainError("json rejected"))
  ELSE IF MissingPropertyFields(res.data)
       THEN Throw(s, PlainError("DriveItem response missing required properties"))
  ELSE Return(s, [eTag |-> res.data.eTag, webDavUrl |-> res.data.webDavUrl,
                  name |-> res.data.name])

----------------------------------------------------------------------------
(* getChatMembers *)

GetChatMembers(s) ==
  LET s1 == GetAccessToken(s, GRAPH_SCOPE)
  IN Fetch(s1,
           [NoRequest EXCEPT !.kind = "members", !.root = GRAPH_ROOT,
                             !.method = "GET", !.auth = TRUE, !.bearer = << Token(s1) >>,
                             !.headers = {"Authorization"}],
           "members")

RECURSIVE FilterSeq(_, _)
\* Array.prototype.filter with the test (m) => m.aadObjectId
FilterSeq(seq, i) ==
  IF i > Len(seq) THEN << >>
  ELSE IF Truthy(seq[i].aadObjectId) THEN << seq[i] >> \o FilterSeq(seq, i + 1)
  ELSE FilterSeq(seq, i + 1)

\* Mutant: the entries without userId are not filtered out
ChatMembers_Unfiltered(data) ==
  LET value == IF data.hasValue THEN data.value ELSE << >>
  IN [i \in 1..Len(value) |->
        [aadObjectId |-> value[i].userId, displayName |-> value[i].displayName]]

\* (data.value ?? []).map(...).filter((m) => m.aadObjectId)
ChatMembers(data) ==
  LET value == IF data.hasValue THEN data.value ELSE << >>
      mapped == [i \in 1..Len(value) |->
                   [aadObjectId |-> value[i].userId, displayName |-> value[i].displayName]]
  IN FilterSeq(mapped, 1)

\* members.length > 0
HasMembers(members) == Len(members) > 0

\* members.map((m) => m.aadObjectId)
ObjectIds(members) == [i \in 1..Len(members) |-> members[i].aadObjectId]

\* uploadAndShareSharePoint, step 3: the link request with the scope decided
ShareSharePoint(s) ==
  CreateSharePointSharingLink(s, s.uploaded[1].id, s.scope, s.recipientObjectIds)

\* getChatMembers returned: uploadAndShareSharePoint decides the scope from
\* the members; called directly, the members are the result of the call.
MembersReturned(s, members) ==
  IF s.op = "uploadAndShareSharePoint"
  THEN IF HasMembers(members)
       THEN ShareSharePoint([s EXCEPT !.scope = "users",
                                      !.recipientObjectIds = << ObjectIds(members) >>])
       ELSE ShareSharePoint(s)
  ELSE Return(s, members)

\* Mutant: getChatMembers itself answers a failure with the empty list
MembersThrew_EmptyList(s, e) ==
  IF s.op = "uploadAndShareSharePoint" THEN ShareSharePoint(s) ELSE Return(s, << >>)

\* Mutant: uploadAndShareSharePoint does not catch the error
MembersThrew_Uncaught(s, e) == Throw(s, e)

\* getChatMembers threw: uploadAndShareSharePoint catches the error and goes
\* on with the organization scope; called directly, the call fails.
MembersThrew(s, e) ==
  IF s.op = "uploadAndShareSharePoint" THEN ShareSharePoint(s) ELSE Throw(s, e)

GetChatMembersResponse(s, res) ==
  IF res.rejected THEN MembersThrew(s, PlainError("fetch rejected"))
  ELSE IF ~Ok(res) THEN MembersThrew(s, HttpError("Get chat members failed", res))
  ELSE IF JsonRejects(res) THEN MembersThrew(s, PlainError("json rejected"))
  ELSE MembersReturned(s, ChatMembers(res.data))

----------------------------------------------------------------------------
(* The callers of the upload functions *)

\* Mutant: the scope the caller asked for is not passed on
ShareOneDrive_DefaultScope(s) == CreateSharingLink(s, s.uploaded[1].id, "undefined")

\* uploadAndShareOneDrive, after the upload
ShareOneDrive(s) == CreateSharingLink(s, s.uploaded[1].id, s.paramScope)

\* Mutant: the chat id is not looked at
WantsMembers_WithoutChat(perUser, chat) == perUser

\* if (params.usePerUserSharing && params.chatId)
WantsMembers(perUser, chat) == perUser /\ Truthy(chat)

\* Mutant: the link is requested while the member lookup is still awaited
DetermineScope_LinkBeforeMembers(s) ==
  LET s1 == [s EXCEPT !.scope = "organization", !.recipientObjectIds = << >>]
  IN IF WantsMembers(s1.usePerUserSharing, s1.chatId)
     THEN GetChatMembers(ShareSharePoint(s1))
     ELSE ShareSharePoint(s1)

\* uploadAndShareSharePoint, step 2, after the upload
DetermineScope(s) ==
  LET s1 == [s EXCEPT !.scope = "organization", !.recipientObjectIds = << >>]
  IN IF WantsMembers(s1.usePerUserSharing, s1.chatId)
     THEN GetChatMembers(s1)
     ELSE ShareSharePoint(s1)

\* The upload returned v = {id, webUrl, name} to its caller
UploadReturned(s, v) ==
  LET s1 == [s EXCEPT !.uploaded = << v >>]
  IN CASE s.op = "uploadAndShareOneDrive" -> ShareOneDrive(s1)
       [] s.op = "uploadAndShareSharePoint" -> DetermineScope(s1)
       [] OTHER -> Return(s1, v)

\* The upload threw: neither composition catches it
UploadThrew(s, e) == Throw(s, e)

\* !data.id || !data.webUrl || !data.name
MissingUploadFields(data) ==
  ~Truthy(data.id) \/ ~Truthy(data.webUrl) \/ ~Truthy(data.name)

\* Mutant: the stored name is returned as the id of the item
UploadResult_IdFromName(data) == [id |-> data.name, webUrl |-> data.webUrl, name |-> data.name]

UploadResult(data) == [id |-> data.id, webUrl |-> data.webUrl, name |-> data.name]

----------------------------------------------------------------------------
(* uploadViaResumableSession *)

\* Mutant: the end of the chunk is not clamped to the total size
ChunkEnd_Unclamped(off, totalSize) == off + RESUMABLE_CHUNK_SIZE

\* Mutant: chunks of the simple-upload limit instead of the chunk size
ChunkEnd_WrongConstant(off, totalSize) == Min(off + SIMPLE_UPLOAD_LIMIT, totalSize)

\* Mutant: chunks of 3.75 decimal megabytes
ChunkEnd_DecimalMegabytes(off, totalSize) == Min(off + 3750000, totalSize)

\* const end = Math.min(offset + RESUMABLE_CHUNK_SIZE, totalSize)
ChunkEnd(off, totalSize) == Min(off + RESUMABLE_CHUNK_SIZE, totalSize)

\* Mutant: the Content-Range header states the exclusive end of the range
ChunkRequest_ExclusiveEnd(url, off, totalSize) ==
  LET end == ChunkEnd(off, totalSize)
  IN [NoRequest EXCEPT !.kind = "chunk", !.root = url, !.method = "PUT",
                       !.headers = {"Content-Length", "Content-Range"},
                       !.bodyLength = end - off, !.contentLength = end - off,
                       !.rangeStart = off, !.rangeLast = end,
                       !.rangeTotal = totalSize]

\* The PUT of buffer.subarray(offset, end) to the session URL
ChunkRequest(url, off, totalSize) ==
  LET end == ChunkEnd(off, totalSize)
  IN [NoRequest EXCEPT !.kind = "chunk", !.root = url, !.method = "PUT",
                       !.headers = {"Content-Length", "Content-Range"},
                       !.bodyLength = end - off, !.contentLength = end - off,
                       !.rangeStart = off, !.rangeLast = end - 1,
                       !.rangeTotal = totalSize]

\* Mutant: the loop runs once more when the offset has reached the total
ResumableLoop_Inclusive(s) ==
  IF s.offset <= s.bufferLength
  THEN Fetch(s, ChunkRequest(s.uploadUrl, s.offset, s.bufferLength), "chunk")
  ELSE UploadThrew(s, PlainError("Resumable upload finished without a completion response"))

\* Mutant: the next chunk is sent without waiting for the answer to this one
ResumableLoop_Pipelined(s) ==
  IF s.offset < s.bufferLength
  THEN LET end == ChunkEnd(s.offset, s.bufferLength)
           s1 == Fetch(s, ChunkRequest(s.uploadUrl, s.offset, s.bufferLength), "chunk")
       IN IF end < s.bufferLength
          THEN Fetch(s1, ChunkRequest(s.uploadUrl, end, s.bufferLength), "chunk")
          ELSE s1
  ELSE UploadThrew(s, PlainError("Resumable upload finished without a completion response"))

\* Mutant: every chunk is sent with a bearer token acquired for it
ResumableLoop_TokenPerChunk(s) ==
  IF s.offset < s.bufferLength
  THEN LET s1 == [s EXCEPT !.tokenCalls = Append(@, GRAPH_SCOPE)]
       IN Fetch(s1, [ChunkRequest(s.uploadUrl, s.offset, s.bufferLength)
                       EXCEPT !.auth = TRUE, !.bearer = << Token(s1) >>,
                              !.headers = @ \cup {"Authorization"}],
                "chunk")
  ELSE UploadThrew(s, PlainError("Resumable upload finished without a completion response"))

\* while (offset < totalSize) { fetch ... }  throw "finished without ..."
ResumableLoop(s) ==
  IF s.offset < s.bufferLength
  THEN Fetch(s, ChunkRequest(s.uploadUrl, s.offset, s.bufferLength), "chunk")
  ELSE UploadThrew(s, PlainError("Resumable upload finished without a completion response"))

\* Mutant: the first byte is skipped, the offset starts at 1
UploadViaResumableSession_StartAtOne(s, url) ==
  ResumableLoop([s EXCEPT !.uploadUrl = url, !.offset = 1])

UploadViaResumableSession(s, url) ==
  ResumableLoop([s EXCEPT !.uploadUrl = url, !.offset = 0])

\* Mutant: 201 Created is not taken as a completion
IsCompletion_Only200(status) == status = 200

\* res.status === 200 || res.status === 201
IsCompletion(status) == status = 200 \/ status = 201

\* Mutant: every 2xx status that is no completion continues the loop
IsAccepted_Any2xx(status) == status >= 200 /\ status <= 299

\* the negation of res.status !== 202
IsAccepted(status) == status = 202

\* Mutant: a chunk answered with an unexpected status is submitted again
ChunkResponse_Retry(s, res) ==
  IF res.rejected THEN UploadThrew(s, PlainError("fetch rejected"))
  ELSE IF IsCompletion(res.status)
       THEN IF JsonRejects(res) THEN UploadThrew(s, PlainError("json rejected"))
            ELSE IF MissingUploadFields(res.data)
                 THEN UploadThrew(s, PlainError("Resumable upload final response missing required fields"))
            ELSE UploadReturned(s, UploadResult(res.data))
  ELSE IF ~IsAccepted(res.status) THEN ResumableLoop(s)
  ELSE ResumableLoop([s EXCEPT !.offset = ChunkEnd(s.offset, s.bufferLength)])

\* Mutant: the body of a 202 answer is parsed before the offset advances
ChunkResponse_ParsesAccepted(s, res) ==
  IF res.rejected THEN UploadThrew(s, PlainError("fetch rejected"))
  ELSE IF IsCompletion(res.status)
       THEN IF JsonRejects(res) THEN UploadThrew(s, PlainError("json rejected"))
            ELSE IF MissingUploadFields(res.data)
                 THEN UploadThrew(s, PlainError("Resumable upload final response missing required fields"))
            ELSE UploadReturned(s, UploadResult(res.data))
  ELSE IF ~IsAccepted(res.status)
       THEN UploadThrew(s, [HttpError("Resumable upload failed at byte", res)
                              EXCEPT !.offset = s.offset])
  ELSE IF JsonRejects(res) THEN UploadThrew(s, PlainError("json rejected"))
  ELSE ResumableLoop([s EXCEPT !.offset = ChunkEnd(s.offset, s.bufferLength)])

\* Mutant: the offset advances to the end of the chunk on a completion too
ChunkResponse_AdvanceOnCompletion(s, res) ==
  IF res.rejected THEN UploadThrew(s, PlainError("fetch rejected"))
  ELSE IF IsCompletion(res.status)
       THEN IF JsonRejects(res) THEN UploadThrew(s, PlainError("json rejected"))
            ELSE IF MissingUploadFields(res.data)
                 THEN UploadThrew(s, PlainError("Resumable upload final response missing required fields"))
            ELSE UploadReturned([s EXCEPT !.offset = ChunkEnd(s.offset, s.bufferLength)],
                                UploadResult(res.data))
  ELSE IF ~IsAccepted(res.status)
       THEN UploadThrew(s, [HttpError("Resumable upload failed at byte", res)
                              EXCEPT !.offset = s.offset])
  ELSE ResumableLoop([s EXCEPT !.offset = ChunkEnd(s.offset, s.bufferLength)])

\* Mutant: a completion without the required fields continues the loop
ChunkResponse_IncompleteContinues(s, res) ==
  IF res.rejected THEN UploadThrew(s, PlainError("fetch rejected"))
  ELSE IF IsCompletion(res.status)
       THEN IF JsonRejects(res) THEN UploadThrew(s, PlainError("json rejected"))
            ELSE IF MissingUploadFields(res.data)
                 THEN ResumableLoop([s EXCEPT !.offset = ChunkEnd(s.offset, s.bufferLength)])
            ELSE UploadReturned(s, UploadResult(res.data))
  ELSE IF ~IsAccepted(res.status)
       THEN UploadThrew(s, [HttpError("Resumable upload failed at byte", res)
                              EXCEPT !.offset = s.offset])
  ELSE ResumableLoop([s EXCEPT !.offset = ChunkEnd(s.offset, s.bufferLength)])

\* Mutant: the error names the end of the failed chunk, not its start
ChunkResponse_ErrorAtEnd(s, res) ==
  IF res.rejected THEN UploadThrew(s, PlainError("fetch rejected"))
  ELSE IF IsCompletion(res.status)
       THEN IF JsonRejects(res) THEN UploadThrew(s, PlainError("json rejected"))
            ELSE IF MissingUploadFields(res.data)
                 THEN UploadThrew(s, PlainError("Resumable upload final response missing required fields"))
            ELSE UploadReturned(s, UploadResult(res.data))
  ELSE IF ~IsAccepted(res.status)
       THEN UploadThrew(s, [HttpError("Resumable upload failed at byte", res)
                              EXCEPT !.offset = ChunkEnd(s.offset, s.bufferLength)])
  ELSE ResumableLoop([s EXCEPT !.offset = ChunkEnd(s.offset, s.bufferLength)])

\* Mutant: the offset is not advanced after a 202
ChunkResponse_NoAdvance(s, res) ==
  IF res.rejected THEN UploadThrew(s, PlainError("fetch rejected"))
  ELSE IF IsCompletion(res.status)
       THEN IF JsonRejects(res) THEN UploadThrew(s, PlainError("json rejected"))
            ELSE IF MissingUploadFields(res.data)
                 THEN UploadThrew(s, PlainError("Resumable upload final response missing required fields"))
            ELSE UploadReturned(s, UploadResult(res.data))
  ELSE IF ~IsAccepted(res.status)
       THEN UploadThrew(s, [HttpError("Resumable upload failed at byte", res)
                              EXCEPT !.offset = s.offset])
  ELSE ResumableLoop(s)

\* The loop body after the fetch of a chunk
ChunkResponse(s, res) ==
  IF res.rejected THEN UploadThrew(s, PlainError("fetch rejected"))
  ELSE IF IsCompletion(res.status)
       THEN IF JsonRejects(res) THEN UploadThrew(s, PlainError("json rejected"))
            ELSE IF MissingUploadFields(res.data)
                 THEN UploadThrew(s, PlainError("Resumable upload final response missing required fields"))
            ELSE UploadReturned(s, UploadResult(res.data))
  ELSE IF ~IsAccepted(res.status)
       THEN UploadThrew(s, [HttpError("Resumable upload failed at byte", res)
                              EXCEPT !.offset = s.offset])
  ELSE ResumableLoop([s EXCEPT !.offset = ChunkEnd(s.offset, s.bufferLength)])

----------------------------------------------------------------------------
(* uploadToOneDrive and uploadToSharePoint *)

\* Mutant: the limit itself already goes the resumable way
UseResumable_AtLimit(length) == length >= SIMPLE_UPLOAD_LIMIT

\* Mutant: every non-empty payload goes the resumable way
UseResumable_AnyPayload(length) == length > 0

\* params.buffer.length > SIMPLE_UPLOAD_LIMIT
UseResumable(length) == length > SIMPLE_UPLOAD_LIMIT

SessionRequest(drv, token) ==
  [NoRequest EXCEPT !.kind = "createUploadSession", !.root = GRAPH_ROOT, !.drive = drv,
                    !.method = "POST", !.auth = TRUE, !.bearer = << token >>,
                    !.headers = {"Authorization", "Content-Type"}]

ContentRequest(drv, length, token) ==
  [NoRequest EXCEPT !.kind = "content", !.root = GRAPH_ROOT, !.drive = drv,
                    !.method = "PUT", !.auth = TRUE, !.bearer = << token >>,
                    !.headers = {"Authorization", "Content-Type"},
                    !.bodyLength = length]

\* uploadToOneDrive, up to its first request
UploadToOneDrive(s) ==
  LET s1 == GetAccessToken([s EXCEPT !.drive = "me"], GRAPH_SCOPE)
  IN IF UseResumable(s1.bufferLength)
     THEN Fetch(s1, SessionRequest("me", Token(s1)), "session")
     ELSE Fetch(s1, ContentRequest("me", s1.bufferLength, Token(s1)), "simple")

\* Mutant: the SharePoint upload goes the resumable way from the limit on
UploadToSharePoint_LimitIncluded(s) ==
  LET s1 == GetAccessToken([s EXCEPT !.drive = "site"], GRAPH_SCOPE)
  IN IF s1.bufferLength >= SIMPLE_UPLOAD_LIMIT
     THEN Fetch(s1, SessionRequest("site", Token(s1)), "session")
     ELSE Fetch(s1, ContentRequest("site", s1.bufferLength, Token(s1)), "simple")

\* uploadToSharePoint, up to its first request
UploadToSharePoint(s) ==
  LET s1 == GetAccessToken([s EXCEPT !.drive = "site"], GRAPH_SCOPE)
  IN IF UseResumable(s1.bufferLength)
     THEN Fetch(s1, SessionRequest("site", Token(s1)), "session")
     ELSE Fetch(s1, ContentRequest("site", s1.bufferLength, Token(s1)), "simple")

\* Mutant: the session response is not checked for its uploadUrl
OneDriveSessionResponse_NoUrlCheck(s, res) ==
  IF res.rejected THEN UploadThrew(s, PlainError("fetch rejected"))
  ELSE IF ~Ok(res) THEN UploadThrew(s, HttpError("OneDrive create upload session failed", res))
  ELSE IF JsonRejects(res) THEN UploadThrew(s, PlainError("json rejected"))
  ELSE UploadViaResumableSession(s, res.data.uploadUrl)

\* uploadToOneDrive, from the answer to createUploadSession
OneDriveSessionResponse(s, res) ==
  IF res.rejected THEN UploadThrew(s, PlainError("fetch rejected"))
  ELSE IF ~Ok(res) THEN UploadThrew(s, HttpError("OneDrive create upload session failed", res))
  ELSE IF JsonRejects(res) THEN UploadThrew(s, PlainError("json rejected"))
  ELSE IF ~Truthy(res.data.uploadUrl)
       THEN UploadThrew(s, PlainError("OneDrive create upload session response missing uploadUrl"))
  ELSE UploadViaResumableSession(s, res.data.uploadUrl)

\* uploadToSharePoint, from the answer to createUploadSession
SharePointSessionResponse(s, res) ==
  IF res.rejected THEN UploadThrew(s, PlainError("fetch rejected"))
  ELSE IF ~Ok(res) THEN UploadThrew(s, HttpError("SharePoint create upload session failed", res))
  ELSE IF JsonRejects(res) THEN UploadThrew(s, PlainError("json rejected"))
  ELSE IF ~Truthy(res.data.uploadUrl)
       THEN UploadThrew(s, PlainError("SharePoint create upload session response missing uploadUrl"))
  ELSE UploadViaResumableSession(s, res.data.uploadUrl)

\* uploadToOneDrive, from the answer to the simple upload
OneDriveContentResponse(s, res) ==
  IF res.rejected THEN UploadThrew(s, PlainError("fetch rejected"))
  ELSE IF ~Ok(res) THEN UploadThrew(s, HttpError("OneDrive upload failed", res))
  ELSE IF JsonRejects(res) THEN UploadThrew(s, PlainError("json rejected"))
  ELSE IF MissingUploadFields(res.data)
       THEN UploadThrew(s, PlainError("OneDrive upload response missing required fields"))
  ELSE UploadReturned(s, UploadResult(res.data))

\* Mutant: the body is parsed without looking at res.ok
SharePointContentResponse_NoOkCheck(s, res) ==
  IF res.rejected THEN UploadThrew(s, PlainError("fetch rejected"))
  ELSE IF JsonRejects(res) THEN UploadThrew(s, PlainError("json rejected"))
  ELSE IF MissingUploadFields(res.data)
       THEN UploadThrew(s, PlainError("SharePoint upload response missing required fields"))
  ELSE UploadReturned(s, UploadResult(res.data))

\* uploadToSharePoint, from the answer to the simple upload
SharePointContentResponse(s, res) ==
  IF res.rejected THEN UploadThrew(s, PlainError("fetch rejected"))
  ELSE IF ~Ok(res) THEN UploadThrew(s, HttpError("SharePoint upload failed", res))
  ELSE IF JsonRejects(res) THEN UploadThrew(s, PlainError("json rejected"))
  ELSE IF MissingUploadFields(res.data)
       THEN UploadThrew(s, PlainError("SharePoint upload response missing required fields"))
  ELSE UploadReturned(s, UploadResult(res.data))

----------------------------------------------------------------------------
(* Inputs of the calls and answers of the server *)

OneDriveScopes == {"undefined", "organization", "anonymous"}

SharePointScopes == {"undefined", "organization", "users"}

ChatIds == {"", "c1"}

ItemIds == {"x"}

MemberEntries ==
  { [userId |-> "", displayName |-> "n0"],
    [userId |-> "a", displayName |-> "na"],
    [userId |-> "b", displayName |-> ""] }

MemberLists == UNION { [1..n -> MemberEntries] : n \in 0..MaxMembers }

MembersData ==
  {NoData} \cup { [NoData EXCEPT !.hasValue = TRUE, !.value = v] : v \in MemberLists }

LinkData ==
  { NoData, [NoData EXCEPT !.hasLink = TRUE],
    [NoData EXCEPT !.hasLink = TRUE, !.linkWebUrl = "l1"],
    [NoData EXCEPT !.hasLink = TRUE, !.linkWebUrl = "l2"] }

PropertiesData ==
  { [NoData EXCEPT !.eTag = e, !.webDavUrl = w, !.name = n] :
      e \in {"", "e"}, w \in {"", "d"}, n \in {"", "f"} }

\* Recipient lists a caller of createSharePointSharingLink may pass
RecipientParams == { << >>, << << >> >>, << << "a" >> >>, << << "a", "b" >> >> }

----------------------------------------------------------------------------
(* The state machine *)

Init ==
  /\ pc = "idle"
  /\ op = ""
  /\ drive = ""
  /\ bufferLength = 0
  /\ paramScope = "undefined"
  /\ chatId = ""
  /\ usePerUserSharing = FALSE
  /\ paramRecipients = << >>
  /\ paramItemId = ""
  /\ offset = 0
  /\ uploadUrl = ""
  /\ uploaded = << >>
  /\ scope = ""
  /\ recipientObjectIds = << >>
  /\ requests = << >>
  /\ lastRes = << >>
  /\ result = << >>
  /\ error = << >>
  /\ tokenCalls = << >>
  /\ calls = [c \in Callers |-> IdleCall]
  /\ cells = [c \in Callers |-> [offset |-> 0, uploadUrl |-> ""]]
  /\ answers = [c \in Callers |-> << >>]

CallUploadToOneDrive ==
  /\ pc = "idle"
  /\ \E length \in Lengths :
       Apply(UploadToOneDrive([Cur EXCEPT !.op = "uploadToOneDrive",
                                          !.bufferLength = length]))

CallUploadToSharePoint ==
  /\ pc = "idle"
  /\ \E length \in Lengths :
       Apply(UploadToSharePoint([Cur EXCEPT !.op = "uploadToSharePoint",
                                            !.bufferLength = length]))

CallUploadAndShareOneDrive ==
  /\ pc = "idle"
  /\ \E length \in Lengths, sc \in OneDriveScopes :
       Apply(UploadToOneDrive([Cur EXCEPT !.op = "uploadAndShareOneDrive",
                                          !.bufferLength = length,
                                          !.paramScope = sc]))

CallUploadAndShareSharePoint ==
  /\ pc = "idle"
  /\ \E length \in Lengths, chat \in ChatIds, perUser \in BOOLEAN :
       Apply(UploadToSharePoint([Cur EXCEPT !.op = "uploadAndShareSharePoint",
                                            !.bufferLength = length,
                                            !.chatId = chat,
                                            !.usePerUserSharing = perUser]))

CallCreateSharingLink ==
  /\ pc = "idle"
  /\ \E item \in ItemIds, sc \in OneDriveScopes :
       Apply(CreateSharingLink([Cur EXCEPT !.op = "createSharingLink",
                                           !.paramItemId = item, !.paramScope = sc],
                               item, sc))

CallCreateSharePointSharingLink ==
  /\ pc = "idle"
  /\ \E item \in ItemIds, sc \in SharePointScopes, rcp \in RecipientParams :
       Apply(CreateSharePointSharingLink(
               [Cur EXCEPT !.op = "createSharePointSharingLink", !.paramItemId = item,
                           !.paramScope = sc, !.paramRecipients = rcp],
               item, sc, rcp))

CallGetChatMembers ==
  /\ pc = "idle"
  /\ \E chat \in ChatIds :
       Apply(GetChatMembers([Cur EXCEPT !.op = "getChatMembers", !.chatId = chat]))

CallGetDriveItemProperties ==
  /\ pc = "idle"
  /\ \E item \in ItemIds :
       Apply(GetDriveItemProperties([Cur EXCEPT !.op = "getDriveItemProperties",
                                                !.paramItemId = item]))

\* The answer to createUploadSession arrives
SessionAnswered ==
  /\ pc = "session"
  /\ \E res \in ResponsesOf(SessionData) :
       LET s == [Cur EXCEPT !.lastRes = << res >>]
       IN Apply(IF drive = "me" THEN OneDriveSessionResponse(s, res)
                ELSE SharePointSessionResponse(s, res))

\* The answer to a chunk arrives
ChunkAnswered ==
  /\ pc = "chunk"
  /\ \E res \in ResponsesOf(UploadData) :
       Apply(ChunkResponse([Cur EXCEPT !.lastRes = << res >>], res))

\* The answer to the simple upload arrives
ContentAnswered ==
  /\ pc = "simple"
  /\ \E res \in ResponsesOf(UploadData) :
       LET s == [Cur EXCEPT !.lastRes = << res >>]
       IN Apply(IF drive = "me" THEN OneDriveContentResponse(s, res)
                ELSE SharePointContentResponse(s, res))

\* The answer to the chat members request arrives
MembersAnswered ==
  /\ pc = "members"
  /\ \E res \in ResponsesOf(MembersData) :
       Apply(GetChatMembersResponse([Cur EXCEPT !.lastRes = << res >>], res))

\* The answer to createLink arrives
LinkAnswered ==
  /\ pc = "link"
  /\ \E res \in ResponsesOf(LinkData) :
       LET s == [Cur EXCEPT !.lastRes = << res >>]
       IN Apply(IF op \in {"uploadAndShareOneDrive", "createSharingLink"}
                THEN CreateSharingLinkResponse(s, res)
                ELSE CreateSharePointSharingLinkResponse(s, res))

\* The answer to the item properties request arrives
PropertiesAnswered ==
  /\ pc = "properties"
  /\ \E res \in ResponsesOf(PropertiesData) :
       Apply(GetDriveItemPropertiesResponse([Cur EXCEPT !.lastRes = << res >>], res))

Next ==
  \/ CallUploadToOneDrive
  \/ CallUploadToSharePoint
  \/ CallUploadAndShareOneDrive
  \/ CallUploadAndShareSharePoint
  \/ CallCreateSharingLink
  \/ CallCreateSharePointSharingLink
  \/ CallGetChatMembers
  \/ CallGetDriveItemProperties
  \/ SessionAnswered
  \/ ChunkAnswered
  \/ ContentAnswered
  \/ MembersAnswered
  \/ LinkAnswered
  \/ PropertiesAnswered

Spec == Init /\ [][Next]_vars

\* Calls of the two upload functions alone, when every request awaited is
\* eventually answered (or its fetch rejected)
NextUpload ==
  \/ CallUploadToOneDrive
  \/ CallUploadToSharePoint
  \/ SessionAnswered
  \/ ChunkAnswered
  \/ ContentAnswered

SpecUpload ==
  /\ Init
  /\ [][NextUpload]_vars
  /\ WF_vars(SessionAnswered)
  /\ WF_vars(ChunkAnswered)
  /\ WF_vars(ContentAnswered)

----------------------------------------------------------------------------
(* Vocabulary of the properties *)

UploadOps ==
  {"uploadToOneDrive", "uploadToSharePoint",
   "uploadAndShareOneDrive", "uploadAndShareSharePoint"}

FacadeOps == {"uploadAndShareOneDrive", "uploadAndShareSharePoint"}

Terminal == pc \in {"done", "failed"}

RequestsOfKind(log, k) == SelectSeq(log, LAMBDA r : r.kind = k)

Count(k) == Len(RequestsOfKind(requests, k))

Chunks == RequestsOfKind(requests, "chunk")

\* The exclusive end of the byte range a chunk request declares
RangeEnd(r) == r.rangeLast + 1

\* The chunk in flight while pc = "chunk"
InFlight == requests[Len(requests)]

\* The answer taken by the step, in the state after it
Answer == lastRes'[1]

\* The step takes the answer to the request awaited at `at`
Answers(at) == pc = at /\ lastRes' # << >>

HasUploadFields(res) ==
  /\ ~res.rejected
  /\ res.kind = "json"
  /\ res.data.id # "" /\ res.data.webUrl # "" /\ res.data.name # ""

----------------------------------------------------------------------------
(* C1 *)

\* C1: a call of an upload function with a payload of at most 4 MiB
\* (4 * 1024 * 1024 bytes, the boundary included) makes exactly one transfer
\* request, the PUT of the whole payload to the content endpoint, and
\* neither a createUploadSession request nor a chunk submission.
C1_SimpleUploadUpToLimit ==
  (op \in UploadOps /\ bufferLength <= 4 * 1024 * 1024) =>
    /\ Count("content") = 1
    /\ Count("createUploadSession") = 0
    /\ Count("chunk") = 0
    /\ requests[1].kind = "content"
    /\ requests[1].method = "PUT"
    /\ requests[1].bodyLength = bufferLength

C1_Witness ==
  /\ op = "uploadToSharePoint"
  /\ bufferLength = 4 * 1024 * 1024
  /\ pc = "done"
  /\ Len(requests) = 1

----------------------------------------------------------------------------
(* C2 *)

\* The chunk requests made so far start at 0, are contiguous and strictly
\* increasing, and none ends beyond the total length.
ChunkOffsetsIncreaseFromZero ==
  /\ \A i \in 1..Len(Chunks) :
       /\ Chunks[i].rangeStart = (IF i = 1 THEN 0 ELSE RangeEnd(Chunks[i - 1]))
       /\ Chunks[i].rangeStart < RangeEnd(Chunks[i])
       /\ RangeEnd(Chunks[i]) <= bufferLength
       /\ Chunks[i].rangeTotal = bufferLength

\* C2 as stated: whenever a call with a payload of more than 4 MiB has ended
\* after submitting chunks, their offsets increase strictly from 0 and the
\* last chunk ends exactly at the total length.
C2_AsStated ==
  (op \in UploadOps /\ bufferLength > 4 * 1024 * 1024 /\ Terminal /\ Len(Chunks) > 0) =>
    /\ ChunkOffsetsIncreaseFromZero
    /\ RangeEnd(Chunks[Len(Chunks)]) = bufferLength

\* C2 amended: a payload of more than 4 MiB goes the resumable way (first a
\* createUploadSession request, never the simple PUT); the chunk offsets
\* increase strictly from 0, each chunk starting where the one before
\* ended; and the call stops submitting chunks before the total length is
\* reached only on an answer other than 202 (a completion, an error status
\* or a rejected request): after a 202 short of the total the next chunk
\* goes out.
C2_ChunkOffsets ==
  /\ []((op \in UploadOps /\ bufferLength > 4 * 1024 * 1024) =>
          /\ requests[1].kind = "createUploadSession"
          /\ Count("content") = 0
          /\ ChunkOffsetsIncreaseFromZero)
  /\ [][Answers("chunk") =>
          IF ~Answer.rejected /\ Answer.status = 202 /\ RangeEnd(InFlight) < bufferLength
          THEN /\ pc' = "chunk"
               /\ Len(requests') = Len(requests) + 1
               /\ requests'[Len(requests')].kind = "chunk"
               /\ requests'[Len(requests')].rangeStart = RangeEnd(InFlight)
          ELSE requests' = requests \/ requests'[Len(requests')].kind # "chunk"]_vars

C2_Witness ==
  /\ op = "uploadToOneDrive"
  /\ bufferLength = 10 * 1024 * 1024
  /\ pc = "done"
  /\ Len(Chunks) = 3
  /\ RangeEnd(Chunks[3]) = bufferLength

----------------------------------------------------------------------------
(* C3 *)

\* C3: every chunk submitted that does not end at the total length carries
\* exactly RESUMABLE_CHUNK_SIZE (3,932,160) bytes; the chunk that ends at the
\* total length carries total mod RESUMABLE_CHUNK_SIZE bytes, or
\* RESUMABLE_CHUNK_SIZE when the total is an exact multiple of it.
C3_ChunkLengths ==
  \A i \in 1..Len(Chunks) :
    LET c == Chunks[i]
        expected == IF RangeEnd(c) # c.rangeTotal THEN 3932160
                    ELSE IF c.rangeTotal % 3932160 = 0 THEN 3932160
                    ELSE c.rangeTotal % 3932160
    IN /\ c.bodyLength = expected
       /\ c.contentLength = expected
       /\ RangeEnd(c) - c.rangeStart = expected

C3_Witness ==
  /\ bufferLength = 10 * 1024 * 1024
  /\ Len(Chunks) = 3
  /\ Chunks[1].bodyLength = 3932160
  /\ Chunks[3].bodyLength = 2621440
  /\ RangeEnd(Chunks[3]) = bufferLength

----------------------------------------------------------------------------
(* C4 *)

\* C4: when the answer to a chunk has a status outside {200, 201, 202}
\* (204 and the other 2xx codes included), the call fails at once with the
\* "Resumable upload failed at byte" error, returns nothing, and makes no
\* further request; a call that has failed never makes another request.
C4_UnexpectedChunkStatusFails ==
  /\ [][(Answers("chunk") /\ ~Answer.rejected /\ Answer.status \notin {200, 201, 202}) =>
          /\ pc' = "failed"
          /\ error' # << >>
          /\ error'[1].msg = "Resumable upload failed at byte"
          /\ error'[1].status = Answer.status
          /\ result' = << >>
          /\ uploaded' = << >>
          /\ requests' = requests]_vars
  /\ [][pc = "failed" => (pc' = "failed" /\ requests' = requests)]_vars

C4_Witness ==
  /\ pc = "failed"
  /\ requests[Len(requests)].kind = "chunk"
  /\ RangeEnd(requests[Len(requests)]) < bufferLength
  /\ lastRes[1].status = 204
  /\ error[1].msg = "Resumable upload failed at byte"

----------------------------------------------------------------------------
(* C5 *)

\* C5: an answer to a chunk with status 200 or 201 and a body holding id,
\* webUrl and name ends the chunk loop at once, also when the chunk did not
\* reach the total length: the upload returns exactly these three values
\* and no further chunk is submitted, then or later.
C5_CompletionEndsLoop ==
  /\ [][(Answers("chunk") /\ Answer.status \in {200, 201} /\ HasUploadFields(Answer)) =>
          /\ uploaded' = << [id |-> Answer.data.id, webUrl |-> Answer.data.webUrl,
                             name |-> Answer.data.name] >>
          /\ pc' \notin {"chunk", "failed"}
          /\ RequestsOfKind(requests', "chunk") = Chunks
          /\ (op \notin FacadeOps => (pc' = "done" /\ result' = uploaded'))]_vars
  /\ [][uploaded # << >> => (uploaded' = uploaded /\ RequestsOfKind(requests', "chunk") = Chunks)]_vars

C5_Witness ==
  /\ op = "uploadToOneDrive"
  /\ pc = "done"
  /\ Len(Chunks) = 1
  /\ RangeEnd(Chunks[1]) < bufferLength
  /\ lastRes[1].status = 201
  /\ result = << [id |-> "y", webUrl |-> "u", name |-> "f"] >>

----------------------------------------------------------------------------
(* C6 *)

\* C6: when the chunk that ends at the total length is answered with 202
\* (so that every chunk was), the call fails with the "finished without a
\* completion response" error and makes no further request; an upload by
\* chunks returns a value only on an answer with status 200 or 201.
C6_ExhaustedWithoutCompletion ==
  /\ [][(Answers("chunk") /\ ~Answer.rejected /\ Answer.status = 202
           /\ RangeEnd(InFlight) = bufferLength) =>
          /\ pc' = "failed"
          /\ error' = << [msg |-> "Resumable upload finished without a completion response",
                         status |-> 0, statusText |-> "", offset |-> -1,
                         body |-> << >>] >>
          /\ result' = << >>
          /\ uploaded' = << >>
          /\ requests' = requests]_vars
  /\ [][(Answers("chunk") /\ uploaded' # << >>) =>
          (~Answer.rejected /\ Answer.status \in {200, 201})]_vars

C6_Witness ==
  /\ pc = "failed"
  /\ bufferLength = 2 * 3932160
  /\ Len(Chunks) = 2
  /\ lastRes[1].status = 202
  /\ error[1].msg = "Resumable upload finished without a completion response"

----------------------------------------------------------------------------
(* C7 *)

\* The object ids a members response resolves to: the userId of every entry
\* of its member list that has one, in the order of the list.
RECURSIVE ResolvedIds(_)
ResolvedIds(value) ==
  IF value = << >> THEN << >>
  ELSE IF Head(value).userId = "" THEN ResolvedIds(Tail(value))
  ELSE << Head(value).userId >> \o ResolvedIds(Tail(value))

\* The member lookup succeeded and resolved at least one member
ResolvesMembers(res) ==
  /\ ~res.rejected
  /\ res.status >= 200 /\ res.status <= 299
  /\ res.kind = "json"
  /\ res.data.hasValue
  /\ ResolvedIds(res.data.value) # << >>

\* C7: in uploadAndShareSharePoint the answer to the member lookup is always
\* followed by the createLink request and never by a failure of the call;
\* the link is requested with scope "users", on the beta root, with exactly
\* the resolved members' object ids as recipients, when the lookup succeeded
\* with at least one resolved member, and with scope "organization", on the
\* v1.0 root and without recipients, when the lookup failed in any way or
\* resolved no member.
C7_PerUserScopeOnlyWithMembers ==
  [][(op = "uploadAndShareSharePoint" /\ Answers("members")) =>
       LET link == requests'[Len(requests')]
       IN /\ pc' = "link"
          /\ error' = << >>
          /\ Len(requests') = Len(requests) + 1
          /\ link.kind = "createLink"
          /\ link.itemId = uploaded[1].id
          /\ IF ResolvesMembers(Answer)
             THEN /\ link.scope = "users"
                  /\ link.root = "https://graph.microsoft.com/beta"
                  /\ link.hasRecipients
                  /\ link.recipients = ResolvedIds(Answer.data.value)
             ELSE /\ link.scope = "organization"
                  /\ link.root = "https://graph.microsoft.com/v1.0"
                  /\ ~link.hasRecipients
                  /\ link.recipients = << >>]_vars

C7_Witness ==
  /\ op = "uploadAndShareSharePoint"
  /\ pc = "link"
  /\ Count("members") = 1
  /\ lastRes[1].status = 403
  /\ requests[Len(requests)].kind = "createLink"
  /\ requests[Len(requests)].scope = "organization"
  /\ error = << >>

----------------------------------------------------------------------------
(* C8 *)

\* C8: uploadAndShareSharePoint makes a chat members request only when the
\* caller set usePerUserSharing and gave a (non-empty) chatId; when either
\* is missing it makes no member lookup and, once the upload has returned,
\* requests the link with scope "organization" on the v1.0 root.
C8_MemberLookupNeedsBoth ==
  op = "uploadAndShareSharePoint" =>
    /\ Count("members") > 0 => (usePerUserSharing /\ chatId # "")
    /\ ~(usePerUserSharing /\ chatId # "") =>
         /\ Count("members") = 0
         /\ uploaded # << >> =>
              /\ Count("createLink") = 1
              /\ requests[Len(requests)].kind = "createLink"
              /\ requests[Len(requests)].scope = "organization"
              /\ requests[Len(requests)].root = "https://graph.microsoft.com/v1.0"
              /\ ~requests[Len(requests)].hasRecipients
    /\ (usePerUserSharing /\ chatId # "" /\ uploaded # << >>) => Count("members") = 1

C8_Witness ==
  /\ op = "uploadAndShareSharePoint"
  /\ usePerUserSharing
  /\ chatId = ""
  /\ pc = "done"
  /\ Count("members") = 0
  /\ requests[Len(requests)].scope = "organization"

----------------------------------------------------------------------------
(* C9 *)

\* A JSON body answering the request awaited at `at` with a success status
\* lacks a field the request requires
LacksRequired(at, res) ==
  /\ ~res.rejected
  /\ res.kind = "json"
  /\ CASE at = "chunk" ->
            /\ res.status \in {200, 201}
            /\ (res.data.id = "" \/ res.data.webUrl = "" \/ res.data.name = "")
       [] at = "simple" ->
            /\ res.status >= 200 /\ res.status <= 299
            /\ (res.data.id = "" \/ res.data.webUrl = "" \/ res.data.name = "")
       [] at = "session" ->
            /\ res.status >= 200 /\ res.status <= 299
            /\ res.data.uploadUrl = ""
       [] at = "link" ->
            /\ res.status >= 200 /\ res.status <= 299
            /\ (~res.data.hasLink \/ res.data.linkWebUrl = "")
       [] at = "properties" ->
            /\ res.status >= 200 /\ res.status <= 299
            /\ (res.data.eTag = "" \/ res.data.webDavUrl = "" \/ res.data.name = "")
       [] OTHER -> FALSE

\* A members response with a success status without a member list, or with
\* an entry that has no userId
LacksUserIds(res) ==
  /\ ~res.rejected
  /\ res.kind = "json"
  /\ res.status >= 200 /\ res.status <= 299
  /\ (~res.data.hasValue \/ \E i \in 1..Len(res.data.value) : res.data.value[i].userId = "")

ValidationMessages ==
  {"Resumable upload final response missing required fields",
   "OneDrive upload response missing required fields",
   "SharePoint upload response missing required fields",
   "OneDrive create upload session response missing uploadUrl",
   "SharePoint create upload session response missing uploadUrl",
   "Create sharing link response missing webUrl",
   "Create SharePoint sharing link response missing webUrl",
   "DriveItem response missing required properties"}

FailsValidation ==
  /\ pc' = "failed"
  /\ error' # << >>
  /\ error'[1].msg \in ValidationMessages
  /\ result' = << >>
  /\ requests' = requests

\* C9 as stated: for every request type, chat members included, a success
\* response that lacks a required field makes the operation fail with a
\* validation error.
C9_AsStated ==
  [][/\ (lastRes' # << >> /\ LacksRequired(pc, Answer)) => FailsValidation
     /\ (op = "getChatMembers" /\ Answers("members") /\ LacksUserIds(Answer))
          => FailsValidation]_vars

\* C9 amended: a success response (JSON) that lacks id, webUrl or name for a
\* simple upload or a 200/201 chunk answer, uploadUrl for session creation,
\* link.webUrl for link creation, or eTag, webDavUrl or name for item
\* properties makes the operation fail with a validation error, with no
\* result and no further request.  getChatMembers is the exception: a
\* response without member list gives the empty list, and entries without
\* userId are dropped from the list returned, without an error.
C9_MissingFieldsFail ==
  [][/\ (lastRes' # << >> /\ LacksRequired(pc, Answer)) => FailsValidation
     /\ (op = "getChatMembers" /\ Answers("members") /\ LacksUserIds(Answer)) =>
          /\ pc' = "done"
          /\ error' = << >>
          /\ result' # << >>
          /\ Len(result'[1]) = Len(ResolvedIds(IF Answer.data.hasValue
                                             THEN Answer.data.value ELSE << >>))
          /\ \A i \in 1..Len(result'[1]) : result'[1][i].aadObjectId # ""]_vars

C9_Witness ==
  /\ op = "getDriveItemProperties"
  /\ pc = "failed"
  /\ lastRes[1].status = 200
  /\ lastRes[1].kind = "json"
  /\ lastRes[1].data.eTag = "e"
  /\ lastRes[1].data.webDavUrl = ""
  /\ error[1].msg = "DriveItem response missing required properties"

----------------------------------------------------------------------------
(* C10 *)

\* The answer fails the request awaited at `at`: the fetch is rejected, the
\* status is no success, the body is no JSON or lacks a required field
FailsRequest(at, res) ==
  \/ res.rejected
  \/ IF at = "chunk" THEN res.status \notin {200, 201, 202}
     ELSE ~(res.status >= 200 /\ res.status <= 299)
  \/ (at # "chunk" \/ res.status # 202) /\ res.kind # "json"
  \/ LacksRequired(at, res)

\* C10: the two compositions return a result only when the upload and the
\* link creation both succeeded, and the result then holds the uploaded
\* item and the share URL of the link response; a failed createUploadSession,
\* chunk, simple upload or createLink request fails the whole call at once,
\* with the error, no result and no further request.  A call never has both
\* a result and an error.
C10_NoPartialResult ==
  /\ [](op \in FacadeOps =>
          /\ result # << >> =>
               /\ pc = "done"
               /\ error = << >>
               /\ uploaded # << >>
               /\ Count("createLink") = 1
               /\ ~FailsRequest("link", lastRes[1])
               /\ result[1] = [itemId |-> uploaded[1].id, webUrl |-> uploaded[1].webUrl,
                               shareUrl |-> lastRes[1].data.linkWebUrl,
                               name |-> uploaded[1].name]
               /\ result[1].itemId # "" /\ result[1].webUrl # ""
               /\ result[1].shareUrl # "" /\ result[1].name # ""
          /\ pc = "done" => result # << >>
          /\ pc = "failed" => (result = << >> /\ error # << >>))
  /\ [][(op \in FacadeOps /\ pc \in {"session", "chunk", "simple", "link"}
           /\ lastRes' # << >> /\ FailsRequest(pc, Answer)) =>
          /\ pc' = "failed"
          /\ error' # << >>
          /\ result' = << >>
          /\ requests' = requests]_vars

C10_Witness ==
  /\ op = "uploadAndShareOneDrive"
  /\ pc = "failed"
  /\ uploaded # << >>
  /\ Count("createLink") = 1
  /\ lastRes[1].status = 403
  /\ result = << >>
  /\ error[1].msg = "Create sharing link failed"

----------------------------------------------------------------------------
(* C11 *)

\* C11: within one call each of the createUploadSession, simple upload,
\* createLink, chat members and item properties requests is made at most
\* once, and no two chunk submissions declare the same start of their byte
\* range or overlap: whatever the answers are, nothing is sent twice.
C11_NoRetry ==
  /\ \A k \in {"createUploadSession", "content", "createLink", "members", "properties"} :
       Count(k) <= 1
  /\ \A i, j \in 1..Len(Chunks) :
       i < j => RangeEnd(Chunks[i]) <= Chunks[j].rangeStart

C11_Witness ==
  /\ op = "uploadAndShareSharePoint"
  /\ pc = "failed"
  /\ Count("createUploadSession") = 1
  /\ Len(Chunks) = 3
  /\ Count("members") = 1
  /\ Count("createLink") = 1
  /\ lastRes[1].status = 500

----------------------------------------------------------------------------
(* C12 *)

\* The answer fails the creation of the upload session: no success status,
\* or a success without a (readable JSON) uploadUrl
FailsSession(res) ==
  \/ res.rejected
  \/ ~(res.status >= 200 /\ res.status <= 299)
  \/ res.kind # "json"
  \/ res.data.uploadUrl = ""

\* C12: when the createUploadSession request is answered with a non-success
\* status, or with a success that has no uploadUrl, the upload fails with
\* no result, and the createUploadSession request stays the only request of
\* the call: no chunk and no simple-upload PUT is ever made.
C12_FailedSessionSendsNothing ==
  /\ [][(Answers("session") /\ FailsSession(Answer)) =>
          /\ pc' = "failed"
          /\ error' # << >>
          /\ (~Answer.rejected /\ ~(Answer.status >= 200 /\ Answer.status <= 299)) =>
               /\ error'[1].msg \in {"OneDrive create upload session failed",
                                    "SharePoint create upload session failed"}
               /\ error'[1].status = Answer.status
          /\ (~Answer.rejected /\ Answer.status \in 200..299 /\ Answer.kind = "json") =>
               error'[1].msg \in {"OneDrive create upload session response missing uploadUrl",
                                  "SharePoint create upload session response missing uploadUrl"}
          /\ result' = << >>
          /\ uploaded' = << >>
          /\ requests' = requests
          /\ Len(requests) = 1]_vars
  /\ [][pc = "failed" => requests' = requests]_vars
  /\ [](Count("chunk") > 0 =>
          (Count("content") = 0 /\ uploadUrl # "" /\ requests[1].kind = "createUploadSession"))

C12_Witness ==
  /\ op = "uploadToOneDrive"
  /\ pc = "failed"
  /\ lastRes[1].status = 200
  /\ lastRes[1].kind = "json"
  /\ lastRes[1].data.uploadUrl = ""
  /\ Len(requests) = 1
  /\ error[1].msg = "OneDrive create upload session response missing uploadUrl"

----------------------------------------------------------------------------
(* C13 *)

\* C13: when the PUT of a simple upload is answered with a status that is
\* not 2xx, the upload fails with the "upload failed" error, which carries
\* the status and the text of the response body (empty when the body cannot
\* be read); it returns no upload result, also when the body of the failed
\* response holds id, webUrl and name.
C13_FailedSimpleUpload ==
  [][(Answers("simple") /\ ~Answer.rejected
        /\ ~(Answer.status >= 200 /\ Answer.status <= 299)) =>
       /\ pc' = "failed"
       /\ error' # << >>
       /\ error'[1].msg = (IF drive = "me" THEN "OneDrive upload failed"
                           ELSE "SharePoint upload failed")
       /\ error'[1].status = Answer.status
       /\ error'[1].body = (IF Answer.kind = "unreadable" THEN << >>
                            ELSE << [kind |-> Answer.kind, data |-> Answer.data] >>)
       /\ result' = << >>
       /\ uploaded' = << >>
       /\ requests' = requests]_vars

C13_Witness ==
  /\ op = "uploadToSharePoint"
  /\ pc = "failed"
  /\ Count("content") = 1
  /\ lastRes[1].status = 403
  /\ HasUploadFields(lastRes[1])
  /\ uploaded = << >>
  /\ error[1].status = 403

----------------------------------------------------------------------------
(* C14 *)

\* C14: a createLink request of createSharePointSharingLink goes to the beta
\* root exactly when its scope is "users", which it is exactly when the
\* scope asked for is "users"; with every other scope, the default
\* included, it goes to the v1.0 root.  A createLink request of
\* createSharingLink always goes to the v1.0 root.
C14_BetaRootOnlyForUsers ==
  \A i \in 1..Len(requests) :
    LET r == requests[i]
    IN r.kind = "createLink" =>
         /\ r.root \in {"https://graph.microsoft.com/beta", "https://graph.microsoft.com/v1.0"}
         /\ r.drive = "site" =>
              /\ (r.root = "https://graph.microsoft.com/beta") <=> (r.scope = "users")
              /\ op = "createSharePointSharingLink" =>
                   ((r.scope = "users") <=> (paramScope = "users"))
              /\ op = "uploadAndShareSharePoint" =>
                   ((r.scope = "users") <=> (scope = "users"))
         /\ r.drive = "me" => r.root = "https://graph.microsoft.com/v1.0"
         /\ (r.drive = "me") <=> (op \in {"createSharingLink", "uploadAndShareOneDrive"})

C14_Witness ==
  /\ op = "createSharePointSharingLink"
  /\ paramScope = "users"
  /\ pc = "done"
  /\ requests[1].kind = "createLink"
  /\ requests[1].root = "https://graph.microsoft.com/beta"

----------------------------------------------------------------------------
(* C15 *)

\* C15: every createLink request with scope "users" carries a non-empty
\* list of recipients.
C15_UsersScopeHasRecipients ==
  \A i \in 1..Len(requests) :
    (requests[i].kind = "createLink" /\ requests[i].scope = "users") =>
      (requests[i].hasRecipients /\ Len(requests[i].recipients) > 0)

----------------------------------------------------------------------------
(* C16 *)

\* The members getChatMembers is to return for a member list: one for every
\* entry with a non-empty userId, in the order of the list
RECURSIVE ExpectedMembers(_)
ExpectedMembers(value) ==
  IF value = << >> THEN << >>
  ELSE IF Head(value).userId = "" THEN ExpectedMembers(Tail(value))
  ELSE << [aadObjectId |-> Head(value).userId, displayName |-> Head(value).displayName] >>
         \o ExpectedMembers(Tail(value))

\* C16: on a success response getChatMembers returns one ChatMember (the
\* userId as aadObjectId, with the displayName) for every entry of the
\* response's member list that has a non-empty userId, in the order of the
\* response, and drops every other entry; when no entry has one, or the
\* response has no member list, it returns the empty list and no error.
C16_ChatMembersFiltered ==
  [][(op = "getChatMembers" /\ Answers("members") /\ ~Answer.rejected
        /\ Answer.status >= 200 /\ Answer.status <= 299 /\ Answer.kind = "json") =>
       /\ pc' = "done"
       /\ error' = << >>
       /\ result' = << IF Answer.data.hasValue THEN ExpectedMembers(Answer.data.value)
                       ELSE << >> >>]_vars

C16_Witness ==
  /\ op = "getChatMembers"
  /\ pc = "done"
  /\ lastRes[1].data.hasValue
  /\ Len(lastRes[1].data.value) = 2
  /\ lastRes[1].data.value[1].userId = ""
  /\ result = << << [aadObjectId |-> "a", displayName |-> "na"] >> >>

----------------------------------------------------------------------------
(* C17 *)

\* C17: called directly, getChatMembers answers a non-success response of
\* the members endpoint with the "Get chat members failed" error carrying
\* the HTTP status, and returns nothing; the same response inside
\* uploadAndShareSharePoint raises no error and the call goes on to its
\* createLink request.
C17_ChatMembersFailureRaised ==
  [][(Answers("members") /\ ~Answer.rejected
        /\ ~(Answer.status >= 200 /\ Answer.status <= 299)) =>
       IF op = "getChatMembers"
       THEN /\ pc' = "failed"
            /\ error' # << >>
            /\ error'[1].msg = "Get chat members failed"
            /\ error'[1].status = Answer.status
            /\ result' = << >>
            /\ requests' = requests
       ELSE /\ op = "uploadAndShareSharePoint"
            /\ pc' = "link"
            /\ error' = << >>]_vars

C17_Witness ==
  /\ op = "getChatMembers"
  /\ pc = "failed"
  /\ lastRes[1].status = 403
  /\ error[1].status = 403
  /\ result = << >>

----------------------------------------------------------------------------
(* C18 *)

\* C18: uploadAndShareOneDrive never makes a chat members request, and its
\* createLink request, made once the upload has returned, goes to the v1.0
\* root of the personal drive without recipients, with scope "organization"
\* when the caller gave no scope and with the scope the caller gave
\* ("organization" or "anonymous") otherwise: never with scope "users".
C18_OneDriveScope ==
  op = "uploadAndShareOneDrive" =>
    /\ Count("members") = 0
    /\ \A i \in 1..Len(requests) :
         requests[i].kind = "createLink" =>
           /\ requests[i].scope = (IF paramScope = "undefined" THEN "organization"
                                   ELSE paramScope)
           /\ requests[i].scope \in {"organization", "anonymous"}
           /\ ~requests[i].hasRecipients
           /\ requests[i].drive = "me"
    /\ uploaded # << >> => Count("createLink") = 1

C18_Witness ==
  /\ op = "uploadAndShareOneDrive"
  /\ paramScope = "anonymous"
  /\ pc = "done"
  /\ requests[Len(requests)].kind = "createLink"
  /\ requests[Len(requests)].scope = "anonymous"

----------------------------------------------------------------------------
(* C19 *)

\* C19: in both compositions the value the upload returns is the id, webUrl
\* and name of the response that completed it (the simple upload's, or the
\* 200/201 answer to a chunk); every createLink request addresses the item
\* id of that value; and when the createLink request succeeds the call
\* returns itemId, webUrl and name of the upload and, as shareUrl, the
\* link.webUrl of the createLink response.
C19_CombinedResult ==
  /\ [][(op \in FacadeOps /\ pc \in {"chunk", "simple"} /\ uploaded' # << >>) =>
          uploaded' = << [id |-> Answer.data.id, webUrl |-> Answer.data.webUrl,
                          name |-> Answer.data.name] >>]_vars
  /\ [](op \in FacadeOps =>
          \A i \in 1..Len(requests) :
            requests[i].kind = "createLink" =>
              (uploaded # << >> /\ requests[i].itemId = uploaded[1].id))
  /\ [][(op \in FacadeOps /\ Answers("link") /\ ~Answer.rejected
           /\ Answer.status >= 200 /\ Answer.status <= 299 /\ Answer.kind = "json"
           /\ Answer.data.hasLink /\ Answer.data.linkWebUrl # "") =>
          /\ pc' = "done"
          /\ result' = << [itemId |-> uploaded[1].id, webUrl |-> uploaded[1].webUrl,
                           shareUrl |-> Answer.data.linkWebUrl,
                           name |-> uploaded[1].name] >>
          /\ uploaded' = uploaded]_vars

C19_Witness ==
  /\ op = "uploadAndShareSharePoint"
  /\ pc = "done"
  /\ bufferLength = 10 * 1024 * 1024
  /\ result = << [itemId |-> "y", webUrl |-> "u", shareUrl |-> "l2", name |-> "f"] >>
  /\ requests[Len(requests)].itemId = "y"

----------------------------------------------------------------------------
(* Two calls of the compositions running concurrently.  Each call is the   *)
(* same code as above; the steps of the two calls interleave at their      *)
(* suspension points.  offset and uploadUrl are declared inside            *)
(* uploadViaResumableSession, so every invocation has storage of its own   *)
(* for them.                                                               *)

\* Mutant: offset is declared at module level, one storage for all calls
OffsetCell_ModuleLevel(c) == 1

\* let offset = 0: the storage of the offset of call c
OffsetCell(c) == c

\* const { uploadUrl, buffer, fetchFn } = params: the storage of the URL
UrlCell(c) == c

\* The state of call c, its offset and uploadUrl read from their storage
Load(c) ==
  [calls[c] EXCEPT !.offset = cells[OffsetCell(c)].offset,
                   !.uploadUrl = cells[UrlCell(c)].uploadUrl]

\* The code that follows the answer res to the request call s awaits
AnswerStep(s, res) ==
  LET s1 == [s EXCEPT !.lastRes = << res >>]
  IN CASE s.pc = "session" ->
            IF s.drive = "me" THEN OneDriveSessionResponse(s1, res)
            ELSE SharePointSessionResponse(s1, res)
       [] s.pc = "chunk" -> ChunkResponse(s1, res)
       [] s.pc = "simple" ->
            IF s.drive = "me" THEN OneDriveContentResponse(s1, res)
            ELSE SharePointContentResponse(s1, res)
       [] s.pc = "members" -> GetChatMembersResponse(s1, res)
       [] s.pc = "link" ->
            IF s.op \in {"uploadAndShareOneDrive", "createSharingLink"}
            THEN CreateSharingLinkResponse(s1, res)
            ELSE CreateSharePointSharingLinkResponse(s1, res)
       [] s.pc = "properties" -> GetDriveItemPropertiesResponse(s1, res)
       [] OTHER -> s

\* A composition, from its call to its first request
Begin(opName, length, sc, chat, perUser) ==
  LET s == [IdleCall EXCEPT !.op = opName, !.bufferLength = length, !.paramScope = sc,
                            !.chatId = chat, !.usePerUserSharing = perUser]
  IN IF opName = "uploadAndShareOneDrive" THEN UploadToOneDrive(s)
     ELSE UploadToSharePoint(s)

PairLengths == {1, SIMPLE_UPLOAD_LIMIT + 1, 2 * RESUMABLE_CHUNK_SIZE + 1}

UploadedX == [NoData EXCEPT !.id = "x", !.webUrl = "u", !.name = "f"]

\* The answers the server gives to the two calls
PairResponses(at) ==
  CASE at = "session" ->
         { Json(200, [NoData EXCEPT !.uploadUrl = "s1"]),
           Json(200, [NoData EXCEPT !.uploadUrl = "s2"]), Json(500, NoData) }
    [] at = "chunk" -> { Json(202, NoData), Json(201, UploadedX), Json(500, NoData) }
    [] at = "simple" -> { Json(200, UploadedX), Json(403, NoData) }
    [] at = "members" ->
         { Json(200, [NoData EXCEPT !.hasValue = TRUE,
                                    !.value = << [userId |-> "a", displayName |-> "na"] >>]),
           Json(403, NoData) }
    [] at = "link" ->
         { Json(200, [NoData EXCEPT !.hasLink = TRUE, !.linkWebUrl = "l1"]),
           Json(500, NoData) }
    [] OTHER -> {}

\* Call c takes a step to state s: its variables are written back
Store(c, s) ==
  /\ calls' = [calls EXCEPT ![c] = s]
  /\ cells' = [k \in Callers |->
                 [offset |-> IF k = OffsetCell(c) /\ s.offset # Load(c).offset
                             THEN s.offset ELSE cells[k].offset,
                  uploadUrl |-> IF k = UrlCell(c) /\ s.uploadUrl # Load(c).uploadUrl
                                THEN s.uploadUrl ELSE cells[k].uploadUrl]]

InitPair == Init

\* One of the two calls begins
PairCall ==
  \E c \in Callers :
    /\ calls[c].pc = "idle"
    /\ \E length \in PairLengths :
         \/ Store(c, Begin("uploadAndShareOneDrive", length, "undefined", "", FALSE))
         \/ Store(c, Begin("uploadAndShareSharePoint", length, "undefined", "c1", TRUE))
    /\ UNCHANGED << answers, pc, op, drive, bufferLength, paramScope, chatId,
                    usePerUserSharing, paramRecipients, paramItemId, offset, uploadUrl,
                    uploaded, scope, recipientObjectIds, requests, lastRes, result,
                    error, tokenCalls >>

\* One of the two calls gets the answer to its request
PairAnswered ==
  \E c \in Callers :
    /\ calls[c].pc \in {"session", "chunk", "simple", "members", "link"}
    /\ \E res \in PairResponses(calls[c].pc) :
         /\ Store(c, AnswerStep(Load(c), res))
         /\ answers' = [answers EXCEPT ![c] = Append(@, res)]
    /\ UNCHANGED << pc, op, drive, bufferLength, paramScope, chatId,
                    usePerUserSharing, paramRecipients, paramItemId, offset, uploadUrl,
                    uploaded, scope, recipientObjectIds, requests, lastRes, result,
                    error, tokenCalls >>

NextPair == PairCall \/ PairAnswered

SpecPair == InitPair /\ [][NextPair]_vars

----------------------------------------------------------------------------
(* C20 *)

\* The state a call reaches when it runs alone and gets the answers of hist
RECURSIVE Replay(_, _)
Replay(s, hist) ==
  IF hist = << >> THEN s ELSE Replay(AnswerStep(s, Head(hist)), Tail(hist))

RunAlone(c) ==
  Replay(Begin(calls[c].op, calls[c].bufferLength, calls[c].paramScope,
               calls[c].chatId, calls[c].usePerUserSharing),
         answers[c])

\* C20: with two compositions running concurrently, their steps interleaved
\* in any order, each call is at every moment in the state (position,
\* offset, session URL, requests made, result or error) it would be in had
\* it run alone and received the same answers; every chunk of a call is
\* sent to the session URL that call's own createUploadSession answer gave,
\* and the chunks of a call start at 0 and follow one another without gap.
C20_ConcurrentCallsIndependent ==
  \A c \in Callers :
    calls[c].pc # "idle" =>
      LET s == Load(c)
          chunks == RequestsOfKind(s.requests, "chunk")
      IN /\ s = RunAlone(c)
         /\ \A i \in 1..Len(chunks) :
              /\ chunks[i].root = answers[c][1].data.uploadUrl
              /\ chunks[i].rangeStart = (IF i = 1 THEN 0 ELSE chunks[i - 1].rangeLast + 1)
              /\ chunks[i].rangeTotal = s.bufferLength

C20_Witness ==
  /\ calls[1].pc = "chunk"
  /\ calls[2].pc = "chunk"
  /\ Load(1).offset = 3932160
  /\ Load(2).offset = 0
  /\ Load(1).uploadUrl = "s1"
  /\ Load(2).uploadUrl = "s2"
  /\ Len(RequestsOfKind(calls[1].requests, "chunk")) = 2
  /\ Len(RequestsOfKind(calls[2].requests, "chunk")) = 1

----------------------------------------------------------------------------
(* C21 *)

\* C21: a 202 answer to a chunk that does not end at the total length is
\* followed by exactly one more chunk; the chunk that ends at the total
\* length is therefore reached on 202 answers alone, and when it is in
\* flight exactly ceil(total / 3,932,160) chunks have been submitted (three
\* for a payload of 10 MiB).  When that chunk is answered with 200 or 201
\* and a body holding id, webUrl and name, no further chunk is submitted
\* and the upload returns the id, webUrl and name of that answer.
C21_ChunkCountAndResult ==
  /\ [][(Answers("chunk") /\ ~Answer.rejected /\ Answer.status = 202
           /\ RangeEnd(InFlight) # bufferLength) =>
          /\ pc' = "chunk"
          /\ Len(RequestsOfKind(requests', "chunk")) = Len(Chunks) + 1]_vars
  /\ []((pc = "chunk" /\ RangeEnd(InFlight) = bufferLength) =>
          /\ Len(Chunks) = (bufferLength + 3932160 - 1) \div 3932160
          /\ bufferLength = 10 * 1024 * 1024 => Len(Chunks) = 3)
  /\ [][(Answers("chunk") /\ Answer.status \in {200, 201} /\ HasUploadFields(Answer)
           /\ RangeEnd(InFlight) = bufferLength) =>
          /\ RequestsOfKind(requests', "chunk") = Chunks
          /\ uploaded' = << [id |-> Answer.data.id, webUrl |-> Answer.data.webUrl,
                             name |-> Answer.data.name] >>
          /\ op \in {"uploadToOneDrive", "uploadToSharePoint"} =>
               (pc' = "done" /\ result' = uploaded')]_vars
  /\ [][uploaded # << >> => RequestsOfKind(requests', "chunk") = Chunks]_vars

C21_Witness ==
  /\ op = "uploadToSharePoint"
  /\ bufferLength = 10 * 1024 * 1024
  /\ pc = "done"
  /\ Len(Chunks) = 3
  /\ Chunks[3].rangeStart = 7864320
  /\ lastRes[1].status = 201
  /\ result = << [id |-> "x", webUrl |-> "u", name |-> "f"] >>

----------------------------------------------------------------------------
(* C22 *)

\* C22: in every state of a call of an upload function the offset of the
\* resumable transfer is at least 0 and at most the total length; it is 0
\* as long as at most one chunk has been submitted, the first chunk starts
\* at byte 0, and no step of the call decreases it.
C22_OffsetWithinBounds ==
  /\ [](op \in UploadOps =>
          /\ 0 <= offset
          /\ offset <= bufferLength
          /\ Count("chunk") <= 1 => offset = 0
          /\ Count("chunk") >= 1 => Chunks[1].rangeStart = 0)
  /\ [][offset' >= offset]_vars

C22_Witness ==
  /\ op = "uploadToOneDrive"
  /\ bufferLength = 10 * 1024 * 1024
  /\ pc = "chunk"
  /\ offset = 2 * 3932160
  /\ Len(Chunks) = 3

----------------------------------------------------------------------------
(* C23 *)

\* C23: a step of the call changes the offset if and only if it takes a
\* 202 answer to a chunk; the offset then becomes the end of the chunk that
\* was answered, whatever the body of the answer is (JSON with or without
\* fields, text, unreadable).  Every other answer (200, 201, another
\* status, a rejected request) leaves the offset as it was.
C23_OffsetAdvancesOn202Only ==
  [][/\ (offset' # offset) <=>
          (Answers("chunk") /\ ~Answer.rejected /\ Answer.status = 202)
     /\ (Answers("chunk") /\ ~Answer.rejected /\ Answer.status = 202) =>
          /\ offset' = RangeEnd(InFlight)
          /\ offset' > offset]_vars

C23_Witness ==
  /\ pc = "chunk"
  /\ offset = 3932160
  /\ Len(Chunks) = 2
  /\ lastRes[1].status = 202
  /\ lastRes[1].kind = "unreadable"

----------------------------------------------------------------------------
(* C24 *)

\* C24 as stated: in a transfer by chunks the offset is at the total length
\* exactly when the upload has completed successfully.
C24_AsStated ==
  (op \in UploadOps /\ Count("chunk") > 0) =>
    ((offset = bufferLength) <=> (uploaded # << >>))

\* C24 amended: in a transfer by chunks the offset reaches the total length
\* at most once, namely when the chunk that ends at the total length is
\* answered with 202; the call then fails at once with the "finished
\* without a completion response" error and takes no further step.  In a
\* run where the upload completes successfully the offset never reaches
\* the total length: it stays at the start of the chunk whose 200/201
\* answer completed the upload.
C24_OffsetReachesTotal ==
  /\ []((op \in UploadOps /\ Count("chunk") > 0 /\ offset = bufferLength) =>
          /\ pc = "failed"
          /\ uploaded = << >>
          /\ result = << >>
          /\ error[1].msg = "Resumable upload finished without a completion response"
          /\ lastRes[1].status = 202
          /\ RangeEnd(Chunks[Len(Chunks)]) = bufferLength)
  /\ []((op \in UploadOps /\ Count("chunk") > 0 /\ uploaded # << >>) =>
          /\ offset < bufferLength
          /\ offset = Chunks[Len(Chunks)].rangeStart)
  /\ [][(Answers("chunk") /\ ~Answer.rejected /\ Answer.status = 202
           /\ RangeEnd(InFlight) = bufferLength) =>
          (offset < bufferLength /\ offset' = bufferLength)]_vars
  /\ [][(Count("chunk") > 0 /\ offset = bufferLength) =>
          (offset' = offset /\ pc' = pc /\ requests' = requests)]_vars

C24_Witness ==
  /\ op = "uploadToSharePoint"
  /\ bufferLength = 10 * 1024 * 1024
  /\ offset = bufferLength
  /\ pc = "failed"
  /\ Len(Chunks) = 3

----------------------------------------------------------------------------
(* C25 *)

\* The chunk requests call c has made
ChunksOf(c) == RequestsOfKind(calls[c].requests, "chunk")

\* The requests of call c that have not been answered yet
Unanswered(c) == Len(calls[c].requests) - Len(answers[c])

\* C25: for each of two calls running concurrently, the chunks of its
\* session are contiguous and in order: the first starts at byte 0 and each
\* later one starts exactly where the one before ended.  At most one
\* request of a call is unanswered at any time, and one is exactly while
\* the call waits for an answer.  A step submits at most one chunk, and it
\* submits a chunk after the first only when it takes the (202) answer to
\* the chunk before.
C25_ChunksSequential ==
  /\ [](\A c \in Callers :
          /\ \A i \in 1..Len(ChunksOf(c)) :
               /\ ChunksOf(c)[i].rangeStart =
                    (IF i = 1 THEN 0 ELSE ChunksOf(c)[i - 1].rangeLast + 1)
               /\ ChunksOf(c)[i].rangeStart <= ChunksOf(c)[i].rangeLast
          /\ Unanswered(c) \in {0, 1}
          /\ (Unanswered(c) = 1) <=>
               (calls[c].pc \in {"session", "chunk", "simple", "members", "link"}))
  /\ [][\A c \in Callers :
          LET before == ChunksOf(c)
              after == RequestsOfKind(calls'[c].requests, "chunk")
          IN Len(after) # Len(before) =>
               /\ Len(after) = Len(before) + 1
               /\ Len(answers'[c]) = Len(answers[c]) + 1
               /\ Len(answers'[c]) = Len(calls[c].requests)
               /\ Len(before) > 0 =>
                    /\ calls[c].pc = "chunk"
                    /\ answers'[c][Len(answers'[c])].status = 202]_vars

C25_Witness ==
  /\ calls[1].pc = "chunk"
  /\ Len(ChunksOf(1)) = 3
  /\ Len(answers[1]) = 3
  /\ calls[2].pc = "chunk"
  /\ Len(ChunksOf(2)) = 2
  /\ Len(answers[2]) = 2

----------------------------------------------------------------------------
(* C26 *)

UploadKinds == {"createUploadSession", "chunk", "content"}

\* C26: in a call of one of the two compositions every request of the
\* upload precedes the member lookup and the createLink request, and the
\* member lookup precedes the createLink request.  A member lookup or a
\* createLink request is made only once the upload has returned its
\* result; while the member lookup is awaited no createLink request has
\* been made, and when a lookup was made the createLink request goes out
\* in the step that takes its answer.  A call whose upload failed has made
\* neither request.
C26_PhasesInOrder ==
  /\ [](op \in FacadeOps =>
          /\ \A i \in 1..Len(requests) :
               requests[i].kind \in {"members", "createLink"} =>
                 /\ uploaded # << >>
                 /\ \A j \in 1..Len(requests) :
                      requests[j].kind \in UploadKinds => j < i
          /\ \A i, j \in 1..Len(requests) :
               (requests[i].kind = "members" /\ requests[j].kind = "createLink") => i < j
          /\ pc \in {"session", "chunk", "simple"} =>
               (Count("members") = 0 /\ Count("createLink") = 0)
          /\ pc = "members" => Count("createLink") = 0
          /\ (pc = "failed" /\ uploaded = << >>) =>
               (Count("members") = 0 /\ Count("createLink") = 0))
  /\ [][(op' \in FacadeOps
           /\ Len(RequestsOfKind(requests', "createLink")) > Count("createLink")) =>
          /\ uploaded' # << >>
          /\ IF Count("members") > 0 THEN Answers("members")
             ELSE pc \in {"chunk", "simple"} /\ uploaded = << >>]_vars
  /\ [][(op' \in FacadeOps
           /\ Len(RequestsOfKind(requests', "members")) > Count("members")) =>
          (pc \in {"chunk", "simple"} /\ uploaded = << >> /\ uploaded' # << >>)]_vars

C26_Witness ==
  /\ op = "uploadAndShareSharePoint"
  /\ pc = "done"
  /\ Len(requests) = 5
  /\ requests[1].kind = "createUploadSession"
  /\ requests[3].kind = "chunk"
  /\ requests[4].kind = "members"
  /\ requests[5].kind = "createLink"

----------------------------------------------------------------------------
(* C27 *)

\* The states of a resumable upload
Created == pc = "session"

Transferring == pc = "chunk"

Completed == Count("chunk") > 0 /\ uploaded # << >>

Failed == pc = "failed" /\ uploaded = << >>

\* C27: an upload of more than 4 MiB is in exactly one of the states
\* Created (the session request awaited), Transferring (a chunk awaited),
\* Completed (the upload has returned its value) and Failed; it starts in
\* Created, goes from Created only to Transferring or Failed and from
\* Transferring only to Transferring, Completed or Failed, and Completed
\* and Failed are final: the value returned is kept and no session or chunk
\* request follows.  A call that has returned a result or raised an error
\* takes no further step: no request, no change of its outcome.  A call
\* has a result exactly when it returned and an error exactly when it
\* failed, never both.
C27_ResumableStateMachine ==
  /\ []((op \in UploadOps /\ bufferLength > 4 * 1024 * 1024) =>
          /\ Created \/ Transferring \/ Completed \/ Failed
          /\ ~(Created /\ Transferring) /\ ~(Created /\ Completed)
          /\ ~(Created /\ Failed) /\ ~(Transferring /\ Completed)
          /\ ~(Transferring /\ Failed) /\ ~(Completed /\ Failed)
          /\ Created => (Len(requests) = 1 /\ requests[1].kind = "createUploadSession"))
  /\ [][(pc = "idle" /\ op' \in UploadOps /\ bufferLength' > 4 * 1024 * 1024) =>
          Created']_vars
  /\ [][Created => (Transferring' \/ Failed')]_vars
  /\ [][Transferring => (Transferring' \/ Completed' \/ Failed')]_vars
  /\ [][Completed =>
          /\ Completed'
          /\ uploaded' = uploaded
          /\ RequestsOfKind(requests', "chunk") = Chunks
          /\ Len(RequestsOfKind(requests', "createUploadSession")) = 1]_vars
  /\ [][Terminal =>
          /\ pc' = pc
          /\ result' = result
          /\ error' = error
          /\ uploaded' = uploaded
          /\ requests' = requests]_vars
  /\ [](/\ (result # << >>) <=> (pc = "done")
        /\ (error # << >>) <=> (pc = "failed")
        /\ ~(result # << >> /\ error # << >>))

C27_Witness ==
  /\ op = "uploadToOneDrive"
  /\ Failed
  /\ Len(Chunks) = 2
  /\ lastRes[1].status = 500
  /\ error[1].msg = "Resumable upload failed at byte"

----------------------------------------------------------------------------
(* C28 *)

\* C28: every chunk request carries the bytes [start, end) of the payload,
\* where start is the offset at its submission and end the smaller of
\* start + 3,932,160 and the total length; its Content-Range declares start
\* as first byte, end - 1 as last byte and the total length as size, and
\* its Content-Length is end - start, the length of its body.  The last
\* byte declared is always below the total, and all chunks of a call
\* declare the same total.
C28_ContentRange ==
  /\ \A i \in 1..Len(Chunks) :
       LET c == Chunks[i]
           end == IF c.rangeStart + 3932160 < bufferLength
                  THEN c.rangeStart + 3932160 ELSE bufferLength
       IN /\ c.rangeStart >= 0
          /\ c.rangeLast = end - 1
          /\ c.contentLength = end - c.rangeStart
          /\ c.bodyLength = c.contentLength
          /\ c.contentLength > 0
          /\ c.rangeLast < c.rangeTotal
          /\ c.rangeTotal = bufferLength
          /\ \A j \in 1..Len(Chunks) : Chunks[j].rangeTotal = c.rangeTotal
  /\ pc = "chunk" => InFlight.rangeStart = offset

C28_Witness ==
  /\ bufferLength = 2 * 3932160 + 1
  /\ pc = "chunk"
  /\ Len(Chunks) = 3
  /\ Chunks[2].rangeStart = 3932160
  /\ Chunks[2].rangeLast = 7864319
  /\ Chunks[3].rangeStart = 7864320
  /\ Chunks[3].rangeLast = 7864320
  /\ Chunks[3].contentLength = 1
  /\ Chunks[3].rangeTotal = 7864321

----------------------------------------------------------------------------
(* C29 *)

\* C29: when a chunk is answered with status 200 or 201 and a JSON body
\* that lacks id, webUrl or name, the call fails at once with the "final
\* response missing required fields" error, also when the chunk did not
\* reach the total length: it returns nothing, the offset does not advance
\* and no further request is made, then or later.  A 200/201 answer whose
\* body is no JSON at all fails the call at once as well.
C29_IncompleteCompletionFails ==
  /\ [][(Answers("chunk") /\ ~Answer.rejected /\ Answer.status \in {200, 201}
           /\ Answer.kind = "json"
           /\ (Answer.data.id = "" \/ Answer.data.webUrl = "" \/ Answer.data.name = "")) =>
          /\ pc' = "failed"
          /\ error' # << >>
          /\ error'[1].msg = "Resumable upload final response missing required fields"
          /\ result' = << >>
          /\ uploaded' = << >>
          /\ offset' = offset
          /\ requests' = requests]_vars
  /\ [][(Answers("chunk") /\ ~Answer.rejected /\ Answer.status \in {200, 201}
           /\ Answer.kind # "json") =>
          /\ pc' = "failed"
          /\ result' = << >>
          /\ uploaded' = << >>
          /\ requests' = requests]_vars
  /\ [][pc = "failed" => (pc' = "failed" /\ requests' = requests /\ uploaded' = << >>)]_vars

C29_Witness ==
  /\ op = "uploadToSharePoint"
  /\ pc = "failed"
  /\ bufferLength = 10 * 1024 * 1024
  /\ Len(Chunks) = 1
  /\ lastRes[1].status = 200
  /\ lastRes[1].kind = "json"
  /\ lastRes[1].data.id = ""
  /\ lastRes[1].data.webUrl = "u"
  /\ error[1].msg = "Resumable upload final response missing required fields"

----------------------------------------------------------------------------
(* C30 *)

\* C30: when a chunk is answered with a status other than 200, 201 and 202,
\* the call fails with the "Resumable upload failed at byte" error, which
\* carries the offset at which the failed chunk started (the offset before
\* its submission), the status and the text of the response body (empty
\* when the body cannot be read).  For the k-th chunk that offset is
\* (k - 1) * 3,932,160: 3,932,160 when the second chunk fails.  No further
\* chunk, and no other request, follows.
C30_ChunkErrorNamesOffset ==
  /\ [][(Answers("chunk") /\ ~Answer.rejected /\ Answer.status \notin {200, 201, 202}) =>
          /\ pc' = "failed"
          /\ error' # << >>
          /\ error'[1].msg = "Resumable upload failed at byte"
          /\ error'[1].offset = offset
          /\ error'[1].offset = InFlight.rangeStart
          /\ error'[1].offset = (Len(Chunks) - 1) * 3932160
          /\ Len(Chunks) = 2 => error'[1].offset = 3932160
          /\ error'[1].status = Answer.status
          /\ error'[1].body = (IF Answer.kind = "unreadable" THEN << >>
                               ELSE << [kind |-> Answer.kind, data |-> Answer.data] >>)
          /\ RequestsOfKind(requests', "chunk") = Chunks
          /\ requests' = requests]_vars
  /\ [][error # << >> => (error' = error /\ requests' = requests)]_vars

C30_Witness ==
  /\ op = "uploadToOneDrive"
  /\ pc = "failed"
  /\ bufferLength = 10 * 1024 * 1024
  /\ Len(Chunks) = 2
  /\ lastRes[1].status = 500
  /\ lastRes[1].kind = "text"
  /\ error[1].offset = 3932160
  /\ error[1].status = 500
  /\ error[1].body # << >>

----------------------------------------------------------------------------
(* C31 *)

\* The answer to the request awaited at `at` is a response that fails it by
\* its status
NonSuccess(at, res) ==
  /\ ~res.rejected
  /\ IF at = "chunk" THEN res.status \notin {200, 201, 202}
     ELSE ~(res.status >= 200 /\ res.status <= 299)

\* The message of the HTTP error of the request awaited
FailureMessage ==
  CASE pc = "session" -> IF drive = "me" THEN "OneDrive create upload session failed"
                         ELSE "SharePoint create upload session failed"
    [] pc = "simple" -> IF drive = "me" THEN "OneDrive upload failed"
                        ELSE "SharePoint upload failed"
    [] pc = "chunk" -> "Resumable upload failed at byte"
    [] pc = "link" -> IF op \in {"createSharingLink", "uploadAndShareOneDrive"}
                      THEN "Create sharing link failed"
                      ELSE "Create SharePoint sharing link failed"
    [] pc = "members" -> "Get chat members failed"
    [] pc = "properties" -> "Get driveItem properties failed"
    [] OTHER -> ""

\* The call fails with the HTTP error of the answer: its status, its status
\* text and the text of its body, empty when the body cannot be read
SurfacesHttpError ==
  /\ pc' = "failed"
  /\ error' # << >>
  /\ error'[1].msg = FailureMessage
  /\ error'[1].status = Answer.status
  /\ error'[1].statusText = Answer.statusText
  /\ error'[1].body = (IF Answer.kind = "unreadable" THEN << >>
                       ELSE << [kind |-> Answer.kind, data |-> Answer.data] >>)
  /\ result' = << >>
  /\ requests' = requests

\* C31 as stated: every request answered with a failing status makes the
\* operation fail with the HTTP error carrying status, status text and body
\* text, the body text empty when the body cannot be read.
C31_AsStated ==
  [][(pc \in {"session", "chunk", "simple", "members", "link", "properties"}
        /\ lastRes' # << >> /\ NonSuccess(pc, Answer)) => SurfacesHttpError]_vars

\* C31 amended: every request answered with a failing status, except the
\* chat members request made inside uploadAndShareSharePoint, makes the
\* operation fail with the HTTP error carrying status, status text and body
\* text, the body text empty when the body cannot be read (never the
\* body-read failure, never a success).  A failing answer to the chat
\* members request inside uploadAndShareSharePoint is not surfaced: the
\* call goes on to its createLink request without an error.
C31_HttpErrorsSurfaced ==
  [][(pc \in {"session", "chunk", "simple", "members", "link", "properties"}
        /\ lastRes' # << >> /\ NonSuccess(pc, Answer)) =>
       IF op = "uploadAndShareSharePoint" /\ pc = "members"
       THEN pc' = "link" /\ error' = << >> /\ result' = << >>
       ELSE SurfacesHttpError]_vars

C31_Witness ==
  /\ op = "createSharingLink"
  /\ pc = "failed"
  /\ lastRes[1].status = 500
  /\ lastRes[1].kind = "unreadable"
  /\ error[1].msg = "Create sharing link failed"
  /\ error[1].status = 500
  /\ error[1].statusText = "Internal Server Error"
  /\ error[1].body = << >>

----------------------------------------------------------------------------
(* C32 *)

GraphKinds == {"createUploadSession", "content", "createLink", "members", "properties"}

\* The requests to the Graph API endpoints made so far
GraphRequests == SelectSeq(requests, LAMBDA r : r.kind \in GraphKinds)

\* C32: every createUploadSession, simple upload, createLink, chat members
\* and item properties request carries an Authorization header with a
\* bearer token that the token provider returned when asked for the scope
\* https://graph.microsoft.com.  The token provider is asked for no other
\* scope, and the token of a request was acquired before the request went
\* out: the i-th of these requests carries the token of the i-th call of
\* the token provider, and when it goes out exactly i calls have been made.
C32_BearerTokenOnGraphRequests ==
  /\ [](/\ \A i \in 1..Len(tokenCalls) : tokenCalls[i] = "https://graph.microsoft.com"
        /\ Len(GraphRequests) = Len(tokenCalls)
        /\ \A i \in 1..Len(GraphRequests) :
             LET r == GraphRequests[i]
             IN /\ r.auth
                /\ "Authorization" \in r.headers
                /\ r.bearer = << [scope |-> "https://graph.microsoft.com", serial |-> i] >>
                /\ r.root \in {"https://graph.microsoft.com/v1.0",
                               "https://graph.microsoft.com/beta"})
  /\ [][Len(tokenCalls') \in {Len(tokenCalls), Len(tokenCalls) + 1}]_vars

C32_Witness ==
  /\ op = "uploadAndShareSharePoint"
  /\ pc = "link"
  /\ Len(tokenCalls) = 3
  /\ Len(GraphRequests) = 3
  /\ GraphRequests[2].kind = "members"
  /\ GraphRequests[3].kind = "createLink"
  /\ GraphRequests[3].bearer[1].serial = 3

----------------------------------------------------------------------------
(* C33 *)

\* C33: the chunk size is 3,932,160 bytes, a positive multiple of 320 KiB
\* (327,680 bytes); the start of every chunk submitted is a multiple of
\* 327,680, and so is the length of every chunk that does not end at the
\* total length.
C33_ChunksAlignedTo320KiB ==
  /\ RESUMABLE_CHUNK_SIZE = 3932160
  /\ RESUMABLE_CHUNK_SIZE > 0
  /\ RESUMABLE_CHUNK_SIZE % 327680 = 0
  /\ 327680 = 320 * 1024
  /\ \A i \in 1..Len(Chunks) :
       /\ Chunks[i].rangeStart % 327680 = 0
       /\ RangeEnd(Chunks[i]) # bufferLength =>
            /\ Chunks[i].contentLength % 327680 = 0
            /\ Chunks[i].bodyLength % 327680 = 0
            /\ Chunks[i].contentLength > 0

C33_Witness ==
  /\ bufferLength = 2 * 3932160 + 1
  /\ Len(Chunks) = 3
  /\ Chunks[3].rangeStart = 24 * 327680
  /\ Chunks[2].contentLength = 12 * 327680
  /\ Chunks[3].contentLength % 327680 # 0

----------------------------------------------------------------------------
(* C34 *)

\* The message of uploadToSharePoint that corresponds to a message of
\* uploadToOneDrive
SharePointMessage(msg) ==
  CASE msg = "OneDrive create upload session failed" ->
         "SharePoint create upload session failed"
    [] msg = "OneDrive create upload session response missing uploadUrl" ->
         "SharePoint create upload session response missing uploadUrl"
    [] msg = "OneDrive upload failed" -> "SharePoint upload failed"
    [] msg = "OneDrive upload response missing required fields" ->
         "SharePoint upload response missing required fields"
    [] OTHER -> msg

\* The state of an uploadToSharePoint call that corresponds to the state s
\* of an uploadToOneDrive call: the same in everything (position, offset,
\* requests with their kinds, methods, byte ranges, headers and tokens,
\* result, error status and body) but the drive addressed and the name of
\* the store in the error message
Twin(s) ==
  [s EXCEPT !.op = "uploadToSharePoint",
            !.drive = "site",
            !.requests = [i \in 1..Len(s.requests) |->
                            [s.requests[i] EXCEPT !.drive = IF @ = "me" THEN "site" ELSE @]],
            !.error = IF s.error = << >> THEN << >>
                      ELSE << [s.error[1] EXCEPT !.msg = SharePointMessage(@)] >>]

\* C34: uploadToOneDrive and uploadToSharePoint follow the same protocol.
\* Called with the same payload length, uploadToSharePoint makes the first
\* request uploadToOneDrive makes, to the site's drive instead of the
\* user's; and whenever the two have made corresponding requests and get
\* the same answer, they take corresponding steps: the same next request
\* (kind, byte range, headers), or the same result, or the same failure up
\* to the name of the store in the message.
C34_SameProtocol ==
  [][op' = "uploadToOneDrive" =>
       IF pc = "idle"
       THEN UploadToSharePoint([IdleCall EXCEPT !.op = "uploadToSharePoint",
                                                !.bufferLength = bufferLength'])
              = Twin(Cur')
       ELSE AnswerStep(Twin(Cur), lastRes'[1]) = Twin(Cur')]_vars

C34_Witness ==
  /\ op = "uploadToOneDrive"
  /\ pc = "failed"
  /\ bufferLength = 4 * 1024 * 1024 + 1
  /\ Len(requests) = 2
  /\ requests[1].drive = "me"
  /\ Twin(Cur).requests[1].drive = "site"
  /\ requests[2].kind = "chunk"
  /\ Twin(Cur).requests[2] = requests[2]
  /\ lastRes[1].status = 403

----------------------------------------------------------------------------
(* C35 *)

\* C35: when every request is eventually answered, an upload by chunks
\* always ends, whatever the answers are: from the createUploadSession
\* request or any chunk in flight the upload eventually returns its value
\* or the call fails.  It does so after at most ceil(total / 3,932,160)
\* chunk submissions, because an answer to a chunk that is followed by
\* another chunk has strictly increased the offset, which never exceeds
\* the total length.
C35_ResumableUploadTerminates ==
  /\ (pc \in {"session", "chunk"}) ~> (uploaded # << >> \/ pc = "failed")
  /\ [](op \in UploadOps =>
          /\ Len(Chunks) <= (bufferLength + 3932160 - 1) \div 3932160
          /\ offset <= bufferLength)
  /\ [][(pc = "chunk" /\ pc' = "chunk") =>
          (offset' > offset /\ Len(requests') = Len(requests) + 1)]_vars

C35_Witness ==
  /\ op = "uploadToSharePoint"
  /\ bufferLength = 3 * 3932160
  /\ pc = "failed"
  /\ Len(Chunks) = 3
  /\ offset = bufferLength
  /\ lastRes[1].status = 202

----------------------------------------------------------------------------
(* C36 *)

\* C36: the simple-upload limit (4 MiB) is greater than the chunk size
\* (3,932,160 bytes), so every upload session started by an upload function
\* is for a payload longer than one chunk: a createUploadSession answer
\* that gives a session URL is followed by a chunk, the first chunk is a
\* full chunk of 3,932,160 bytes that does not reach the total length, and
\* a call that fails with the "finished without a completion response"
\* error has submitted at least two chunks.
C36_FirstChunkNeverLast ==
  /\ [](/\ SIMPLE_UPLOAD_LIMIT = 4 * 1024 * 1024
        /\ RESUMABLE_CHUNK_SIZE = 3932160
        /\ 4 * 1024 * 1024 > 3932160)
  /\ []((op \in UploadOps /\ Count("createUploadSession") > 0) =>
          /\ bufferLength > 3932160
          /\ Count("chunk") > 0 =>
               /\ Chunks[1].rangeStart = 0
               /\ Chunks[1].contentLength = 3932160
               /\ Chunks[1].rangeLast = 3932160 - 1
               /\ Chunks[1].rangeLast + 1 < bufferLength
          /\ (error # << >> /\ error[1].msg =
                 "Resumable upload finished without a completion response") =>
               Len(Chunks) >= 2)
  /\ [][(Answers("session") /\ ~Answer.rejected
           /\ Answer.status >= 200 /\ Answer.status <= 299
           /\ Answer.kind = "json" /\ Answer.data.uploadUrl # "") =>
          /\ pc' = "chunk"
          /\ Len(RequestsOfKind(requests', "chunk")) = 1]_vars

C36_Witness ==
  /\ op = "uploadToOneDrive"
  /\ bufferLength = 4 * 1024 * 1024 + 1
  /\ pc = "failed"
  /\ Len(Chunks) = 2
  /\ Chunks[2].contentLength = 262145
  /\ error[1].msg = "Resumable upload finished without a completion response"

----------------------------------------------------------------------------
(* C37 *)

\* C37: a call of one of the two compositions makes at most one createLink
\* request, and exactly one once its upload has returned and the member
\* lookup, if one is made, has been answered.  When the createLink request
\* fails (a rejected fetch, a non-success status, a body without link URL),
\* whether it was sent with scope "users" on the beta root or with scope
\* "organization", the call fails at once with that error and makes no
\* further request: no second createLink with another scope.
C37_SingleCreateLink ==
  /\ [](op \in FacadeOps =>
          /\ Count("createLink") <= 1
          /\ (uploaded # << >> /\ pc # "members") => Count("createLink") = 1
          /\ uploaded = << >> => Count("createLink") = 0)
  /\ [][(op \in FacadeOps /\ Answers("link") /\ FailsRequest("link", Answer)) =>
          /\ pc' = "failed"
          /\ error' # << >>
          /\ NonSuccess("link", Answer) =>
               /\ error'[1].status = Answer.status
               /\ error'[1].msg = (IF op = "uploadAndShareOneDrive"
                                   THEN "Create sharing link failed"
                                   ELSE "Create SharePoint sharing link failed")
          /\ result' = << >>
          /\ requests' = requests]_vars

C37_Witness ==
  /\ op = "uploadAndShareSharePoint"
  /\ pc = "failed"
  /\ Count("createLink") = 1
  /\ requests[Len(requests)].scope = "users"
  /\ requests[Len(requests)].root = "https://graph.microsoft.com/beta"
  /\ lastRes[1].status = 403
  /\ error[1].msg = "Create SharePoint sharing link failed"

----------------------------------------------------------------------------
(* C38 *)

\* C38: a chunk request carries the Content-Length and Content-Range
\* headers and no other: no Authorization header and no bearer token.  The
\* token provider is not called between the createUploadSession request
\* and the end of the upload: an upload function calls it exactly once,
\* before its first request, however many chunks it sends, and a
\* composition has called it exactly once as long as its upload has not
\* returned.
C38_NoTokenOnChunks ==
  /\ [](\A i \in 1..Len(requests) :
          requests[i].kind = "chunk" =>
            /\ requests[i].headers = {"Content-Length", "Content-Range"}
            /\ ~requests[i].auth
            /\ requests[i].bearer = << >>
            /\ requests[i].root = uploadUrl
            /\ requests[i].root \notin {"https://graph.microsoft.com/v1.0",
                                        "https://graph.microsoft.com/beta"})
  /\ [](op \in UploadOps =>
          /\ (op \in {"uploadToOneDrive", "uploadToSharePoint"} \/ uploaded = << >>) =>
               Len(tokenCalls) = 1
          /\ requests[1].bearer # << >>
          /\ requests[1].bearer[1].serial = 1)
  /\ [][(pc = "chunk" /\ uploaded' = << >>) => tokenCalls' = tokenCalls]_vars
  /\ [][pc = "session" => tokenCalls' = tokenCalls]_vars

C38_Witness ==
  /\ op = "uploadToSharePoint"
  /\ pc = "done"
  /\ Len(Chunks) = 3
  /\ Len(tokenCalls) = 1
  /\ requests[1].kind = "createUploadSession"
  /\ requests[1].auth
  /\ ~requests[4].auth

====
